---- MODULE Spec2Model ----
(***************************************************************************)
(* Model of the test-run lifecycle of testrigor-ci-tool:                   *)
(*   - the status classifiers (client.parseTestStatus, two revisions, and  *)
(*     api.StatusInterpreter.ParseTestStatus),                             *)
(*   - the orchestrator (orchestrator.TestRunner.ExecuteTestRun and its    *)
(*     poll loop monitorTestExecution),                                    *)
(*   - the api package's poller (api.TestRigorClient.WaitForTestCompletion)*)
(*                                                                         *)
(* Text is modelled as a sequence of tokens, so that strings.Contains and  *)
(* a prefix test are computed on the text and not assumed.  A Go pointer   *)
(* is a sequence of length 0 (nil) or 1.  A JSON body is a record whose    *)
(* optional members are sequences of length 0 (absent or of another JSON   *)
(* type) or 1.                                                             *)
(***************************************************************************)
EXTENDS Integers, Sequences, FiniteSets, TLC


\* ------------------------------------------------------------------------
\* Program constants
\* ------------------------------------------------------------------------
StatusOK == 200
StatusTestInProgress227 == 227
StatusTestInProgress228 == 228
StatusTestFailed == 230
StatusNotFound == 404
StatusInternalServerError == 500
maxConsecutiveErrors == 5
downloadMaxRetries == 10
\* statusTicker's period, 30 s, in ticks of 10 s
StatusUpdateTicks == 3

StatusCompleted == "completed"
StatusFailed == "failed"
StatusInProgress == "in_progress"
ErrorCategoryCrash == "CRASH"
ErrorCategoryBlocker == "BLOCKER"

\* ------------------------------------------------------------------------
\* Text
\* ------------------------------------------------------------------------
\* strings.Contains(text, tok), on token sequences
Contains(text, tok) == \E i \in 1..Len(text) : text[i] = tok

\* strings.ToLower on the status strings the model uses
ToLower(s) ==
  CASE s = "Completed" -> "completed"
    [] s = "COMPLETED" -> "completed"
    [] s = "Failed" -> "failed"
    [] OTHER -> s

\* A Go error value: nil is NoErr; num carries the %d of the message.
NoErr == [text |-> << >>, num |-> 0]
Err(text) == [text |-> text, num |-> 0]
ErrN(text, n) == [text |-> text, num |-> n]

\* fmt.Sprintf("status %d", code) for the codes the model uses
StatusTok(code) ==
  CASE code = 227 -> "status 227"
    [] code = 228 -> "status 228"
    [] code = 230 -> "status 230"
    [] code = 400 -> "status 400"
    [] code = 404 -> "status 404"
    [] code = 500 -> "status 500"
    [] OTHER -> "status other"

\* ------------------------------------------------------------------------
\* types.TestResults, types.TestStatus
\* ------------------------------------------------------------------------
TestResults(t, q, p, f, pa, c, n, cr) ==
  [Total |-> t, InQueue |-> q, InProgress |-> p, Failed |-> f, Passed |-> pa,
   Canceled |-> c, NotStarted |-> n, Crash |-> cr]

ZeroResults == TestResults(0, 0, 0, 0, 0, 0, 0, 0)

TestStatus(status, errors, results, code) ==
  [Status |-> status, Errors |-> errors, Results |-> results,
   HTTPStatusCode |-> code]

\* (ts *TestStatus) IsComplete
IsComplete(ts) ==
  ToLower(ts.Status) \in {"completed", "failed", "error", "cancelled", "canceled"}

\* (ts *TestStatus) HasErrors
HasErrors(ts) == Len(ts.Errors) > 0

\* (ts *TestStatus) HasCrashes
HasCrashes(ts) == ts.Results.Crash > 0

\* utils.CheckTestCompletion
CheckTestCompletion(ts) ==
  /\ ts.Results.Total > 0
  /\ ts.Results.InQueue = 0
  /\ ts.Results.InProgress = 0
  /\ ts.Results.NotStarted = 0

\* getInt / GetInt: the value under key, 0 when the key is absent
getInt(m, key) == IF key \in DOMAIN m THEN m[key] ELSE 0

\* ------------------------------------------------------------------------
\* JSON bodies
\* ------------------------------------------------------------------------
\* types.TestError
TestError(category, error, occurrences, severity) ==
  [Category |-> category, Error |-> error, Occurrences |-> occurrences,
   Severity |-> severity]

\* One entry of a body's "errors" array: a JSON object (isMap) with the members
\* category, error, occurrences, severity, or a bare JSON string (its text in
\* error).
ErrObject(category, error, occurrences, severity) ==
  [isMap |-> TRUE, category |-> category, error |-> error,
   occurrences |-> occurrences, severity |-> severity]
ErrString(text) ==
  [isMap |-> FALSE, category |-> "", error |-> text, occurrences |-> 0,
   severity |-> ""]

\* A response body. json: json.Unmarshal into a map succeeds.  status, message:
\* the member when it is a JSON string.  overallResults: the member when it is
\* an object, as a function from its keys to numbers.  errors: the member when
\* it is an array.  taskId: the member when it is a string.  raw: string(body).
Body(json, status, overallResults, errors, message, taskId, raw) ==
  [json |-> json, status |-> status, overallResults |-> overallResults,
   errors |-> errors, message |-> message, taskId |-> taskId, raw |-> raw]

\* The entries of the errors array that are JSON objects, as TestErrors
RECURSIVE ObjectErrors(_)
ObjectErrors(list) ==
  IF list = << >> THEN << >>
  ELSE LET e == Head(list)
       IN (IF e.isMap
           THEN << TestError(e.category, e.error, e.occurrences, e.severity) >>
           ELSE << >>) \o ObjectErrors(Tail(list))

\* The entries of the errors array as StatusInterpreter.ParseTestStatus keeps
\* them: objects as they are, bare strings as CRASH / BLOCKER entries
RECURSIVE AllErrors(_)
AllErrors(list) ==
  IF list = << >> THEN << >>
  ELSE LET e == Head(list)
       IN << (IF e.isMap
              THEN TestError(e.category, e.error, e.occurrences, e.severity)
              ELSE TestError(ErrorCategoryCrash, e.error, 1, ErrorCategoryBlocker)) >>
          \o AllErrors(Tail(list))

\* ------------------------------------------------------------------------
\* client.TestRigorClient (the revision the orchestrator's interface matches)
\* ------------------------------------------------------------------------
\* What a classifier returns: (*TestStatus, error)
Ret(status, err) == [status |-> status, err |-> err]

\* parseAPIError
parseAPIError(statusCode, body) ==
  IF body.json /\ Len(body.message) > 0
  THEN Err(<< "API error (", StatusTok(statusCode), "):" >> \o body.message[1])
  ELSE Err(<< "API error (", StatusTok(statusCode), "):" >> \o body.raw)

\* parseStatusBody, reading the camel-case counter names
parseStatusBodyCamel(body, status) ==
  IF ~body.json THEN status
  ELSE [status EXCEPT
          !.Status = IF Len(body.status) > 0 THEN body.status[1] ELSE @,
          !.Results =
             IF Len(body.overallResults) > 0
             THEN LET results == body.overallResults[1]
                  IN TestResults(getInt(results, "total"),
                                 getInt(results, "inQueue"),
                                 getInt(results, "inProgress"),
                                 getInt(results, "failed"),
                                 getInt(results, "passed"),
                                 getInt(results, "canceled"),
                                 getInt(results, "notStarted"),
                                 getInt(results, "crash"))
             ELSE @,
          !.Errors = IF Len(body.errors) > 0
                     THEN @ \o ObjectErrors(body.errors[1]) ELSE @]

\* parseTestStatus, the revision with types.Status* constants
parseTestStatusTyped(statusCode, body) ==
  IF statusCode \in {StatusTestInProgress227, StatusTestInProgress228}
  THEN Ret(<< parseStatusBodyCamel(body,
              TestStatus(StatusInProgress, << >>, ZeroResults, statusCode)) >>, NoErr)
  ELSE IF statusCode = StatusTestFailed
  THEN Ret(<< parseStatusBodyCamel(body,
              TestStatus(StatusFailed, << >>, ZeroResults, statusCode)) >>, NoErr)
  ELSE IF statusCode = StatusNotFound
  THEN Ret(<< >>, Err(<< "test not found or not ready" >>))
  ELSE IF statusCode < 200 \/ statusCode > 299
  THEN Ret(<< >>, parseAPIError(statusCode, body))
  ELSE Ret(<< parseStatusBodyCamel(body,
              TestStatus("", << >>, ZeroResults, statusCode)) >>, NoErr)

\* ------------------------------------------------------------------------
\* client.TestRigorClient (internal/api/client/testrigor_client.go)
\* ------------------------------------------------------------------------
\* parseStatusBody: every counter is the sum of its spellings
parseStatusBody(body, status) ==
  IF ~body.json THEN status
  ELSE [status EXCEPT
          !.Status = IF Len(body.status) > 0 THEN body.status[1] ELSE @,
          !.Results =
             IF Len(body.overallResults) > 0
             THEN LET results == body.overallResults[1]
                  IN TestResults(
                       getInt(results, "Total") + getInt(results, "total"),
                       getInt(results, "In queue") + getInt(results, "inQueue")
                         + getInt(results, "queued"),
                       getInt(results, "In progress") + getInt(results, "inProgress")
                         + getInt(results, "running"),
                       getInt(results, "Failed") + getInt(results, "failed"),
                       getInt(results, "Passed") + getInt(results, "passed"),
                       getInt(results, "Canceled") + getInt(results, "canceled")
                         + getInt(results, "cancelled"),
                       getInt(results, "Not started") + getInt(results, "notStarted"),
                       getInt(results, "Crash") + getInt(results, "crash"))
             ELSE @,
          !.Errors = IF Len(body.errors) > 0
                     THEN @ \o ObjectErrors(body.errors[1]) ELSE @]

\* The Status the switch of parseTestStatus sets before the body is read
DefaultStatus(statusCode) ==
  CASE statusCode = 200 -> "completed"
    [] statusCode = 227 -> "new"
    [] statusCode = 228 -> "in_progress"
    [] statusCode = 230 -> "failed"
    [] OTHER -> ""

\* parseTestStatus
parseTestStatus(statusCode, body) ==
  IF statusCode = 404
  THEN Ret(<< >>, Err(<< "test not found or not ready" >>))
  ELSE IF statusCode \in {400, 401, 403, 500, 502, 503, 504}
  THEN Ret(<< >>, parseAPIError(statusCode, body))
  ELSE Ret(<< parseStatusBody(body,
              TestStatus(DefaultStatus(statusCode), << >>, ZeroResults, statusCode)) >>,
           NoErr)

\* ------------------------------------------------------------------------
\* api.StatusInterpreter
\* ------------------------------------------------------------------------
\* The first error of the list whose text contains "CRASH:", if any
RECURSIVE FirstCrash(_)
FirstCrash(errors) ==
  IF errors = << >> THEN << >>
  ELSE IF Contains(Head(errors).Error, "CRASH:") THEN << Head(errors) >>
  ELSE FirstCrash(Tail(errors))

\* ParseTestStatus
ParseTestStatus(statusCode, body) ==
  IF ~body.json
  THEN Ret(<< >>, Err(<< "error parsing response:", "invalid character" >>))
  ELSE LET status == IF Len(body.status) > 0 THEN body.status[1] ELSE ""
           errors == IF Len(body.errors) > 0 THEN AllErrors(body.errors[1]) ELSE << >>
           results ==
             IF Len(body.overallResults) > 0
             THEN LET m == body.overallResults[1]
                  IN TestResults(getInt(m, "Total"), getInt(m, "In queue"),
                                 getInt(m, "In progress"), getInt(m, "Failed"),
                                 getInt(m, "Passed"), getInt(m, "Canceled"),
                                 getInt(m, "Not started"), getInt(m, "Crash"))
             ELSE ZeroResults
           testStatus == TestStatus(status, errors, results, statusCode)
           crash == FirstCrash(errors)
       IN IF Len(crash) > 0
          THEN Ret(<< testStatus >>, Err(<< "test crashed:" >> \o crash[1].Error))
          ELSE Ret(<< testStatus >>, NoErr)

\* extractErrorDetails: the bare strings of the errors array, joined by "; "
RECURSIVE extractErrorDetails(_)
extractErrorDetails(list) ==
  IF list = << >> THEN << >>
  ELSE LET rest == extractErrorDetails(Tail(list))
       IN IF Head(list).isMap THEN rest
          ELSE IF rest = << >> THEN Head(list).error
          ELSE Head(list).error \o << "; " >> \o rest

\* createAPIError
createAPIError(statusCode, body) ==
  IF ~body.json
  THEN Err(<< "API error (", StatusTok(statusCode), "):" >> \o body.raw)
  ELSE LET msg == IF Len(body.message) > 0 THEN body.message[1] ELSE << >>
           details == IF Len(body.errors) > 0 THEN extractErrorDetails(body.errors[1])
                      ELSE << >>
       IN IF msg = << >> /\ details = << >>
          THEN Err(<< "API error (", StatusTok(statusCode), "):" >> \o body.raw)
          ELSE Err(<< "API error (", StatusTok(statusCode), "):" >> \o msg
                   \o << ", errors:" >> \o details)

\* The first bare string of the errors array that contains "CRASH:", if any
RECURSIVE FirstCrashString(_)
FirstCrashString(list) ==
  IF list = << >> THEN << >>
  ELSE IF ~Head(list).isMap /\ Contains(Head(list).error, "CRASH:")
  THEN << Head(list).error >>
  ELSE FirstCrashString(Tail(list))

\* InterpretResponse: (bytes, error); bytes is empty for nil
InterpretResponse(statusCode, body) ==
  IF statusCode = StatusOK THEN [bytes |-> body.raw, err |-> NoErr]
  ELSE IF statusCode \in {StatusTestInProgress227, StatusTestInProgress228}
  THEN [bytes |-> body.raw, err |-> Err(<< StatusTok(statusCode) >>)]
  ELSE IF statusCode = StatusTestFailed
  THEN [bytes |-> body.raw, err |-> Err(<< "test failed" >>)]
  ELSE IF statusCode = StatusNotFound
  THEN LET crash == IF body.json /\ Len(body.errors) > 0
                    THEN FirstCrashString(body.errors[1]) ELSE << >>
       IN IF Len(crash) > 0
          THEN [bytes |-> body.raw, err |-> Err(<< "test crashed:" >> \o crash[1])]
          ELSE [bytes |-> << >>, err |-> createAPIError(statusCode, body)]
  ELSE IF statusCode \in {400, 401, 403, 500, 502, 503, 504}
  THEN [bytes |-> << >>, err |-> createAPIError(statusCode, body)]
  ELSE IF body.json /\ Len(body.message) > 0
  THEN [bytes |-> << >>,
        err |-> ErrN(<< "unexpected status code: %d, message:" >> \o body.message[1],
                     statusCode)]
  ELSE [bytes |-> << >>, err |-> ErrN(<< "unexpected status code: %d" >>, statusCode)]

\* ------------------------------------------------------------------------
\* The remote service: the responses a request can be answered with
\* ------------------------------------------------------------------------
\* An overallResults object in the service's spelling ("Total", "In queue", ...)
TitleCounts(t, q, p, f, pa, c, n, cr) ==
  ("Total" :> t) @@ ("In queue" :> q) @@ ("In progress" :> p) @@ ("Failed" :> f)
  @@ ("Passed" :> pa) @@ ("Canceled" :> c) @@ ("Not started" :> n) @@ ("Crash" :> cr)

\* An overallResults object in the camel-case spelling
CamelCounts(t, q, p, f, pa, c, n, cr) ==
  ("total" :> t) @@ ("inQueue" :> q) @@ ("inProgress" :> p) @@ ("failed" :> f)
  @@ ("passed" :> pa) @@ ("canceled" :> c) @@ ("notStarted" :> n) @@ ("crash" :> cr)

Spelled(sp, t, q, p, f, pa, c, n, cr) ==
  IF sp = "title" THEN TitleCounts(t, q, p, f, pa, c, n, cr)
  ELSE CamelCounts(t, q, p, f, pa, c, n, cr)

JSONBody(status, overallResults, errors, message) ==
  Body(TRUE, status, overallResults, errors, message, << >>, << "{json}" >>)

NotJSONBody == Body(FALSE, << >>, << >>, << >>, << >>, << >>, << "<html>" >>)
EmptyObject == JSONBody(<< >>, << >>, << >>, << >>)
MessageBody == JSONBody(<< >>, << >>, << >>, << << "Internal Server Error" >> >>)

\* Bodies that report a run under way
RunningBodies ==
  { JSONBody(<< "new" >>, << Spelled(sp, 2, 2, 0, 0, 0, 0, 0, 0) >>, << >>, << >>) :
      sp \in {"title", "camel"} }
  \cup
  { JSONBody(<< "in_progress" >>, << Spelled(sp, 2, 0, 1, 0, 1, 0, 0, 0) >>, << >>, << >>) :
      sp \in {"title", "camel"} }

\* Bodies whose counters say that every test has finished: the status member,
\* the failed count and the crash count vary
FinishedBodies ==
  { JSONBody(<< x[1] >>, << Spelled(sp, 2, 0, 0, x[2], 2 - x[2] - x[3], 0, 0, x[3]) >>,
             << >>, << >>) :
      sp \in {"title", "camel"},
      x \in { << "completed", 0, 0 >>, << "Completed", 0, 0 >>, << "completed", 1, 0 >>,
              << "completed", 0, 1 >>, << "failed", 1, 0 >>, << "Failed", 1, 0 >>,
              << "failed", 0, 1 >>, << "in_progress", 0, 0 >> } }

\* A body with a failed test while another is still running
FailedRunningBody ==
  JSONBody(<< "in_progress" >>, << TitleCounts(2, 0, 1, 1, 0, 0, 0, 0) >>, << >>, << >>)

\* Bodies with a crashed test while another is still running
CrashRunningBodies ==
  { JSONBody(<< "in_progress" >>, << Spelled(sp, 2, 0, 1, 0, 0, 0, 0, 1) >>, << >>, << >>) :
      sp \in {"title", "camel"} }

\* Bodies with a crash reported in the errors array only
CrashErrorBodies ==
  { JSONBody(<< "failed" >>, << TitleCounts(1, 0, 0, 0, 0, 0, 0, 0) >>,
             << << ErrString(<< "CRASH:", "API call failed" >>) >> >>, << >>),
    JSONBody(<< "in_progress" >>, << TitleCounts(1, 0, 1, 0, 0, 0, 0, 0) >>,
             << << ErrObject("BLOCKER", << "CRASH:", "API call failed" >>, 1, "BLOCKER") >> >>,
             << >>),
    JSONBody(<< >>, << >>, << << ErrString(<< "CRASH:", "API call failed" >>) >> >>,
             << << "not found" >> >>) }

\* Bodies that carry only a status member
StatusOnlyBodies ==
  { JSONBody(<< st >>, << >>, << >>, << >>) : st \in {"completed", "canceled"} }

\* A response: the transport failed (fail is the failure's text), or a status
\* code with a body was received.
Response(fail, code, body) == [fail |-> fail, code |-> code, body |-> body]

TransportFailures ==
  { Response(<< t >>, 0, NotJSONBody) :
      t \in { << "connection refused" >>, << "status 227" >> } }

StatusResponses ==
  TransportFailures
  \cup { Response(<< >>, 200, b) :
           b \in RunningBodies \cup FinishedBodies \cup CrashRunningBodies
                 \cup CrashErrorBodies \cup StatusOnlyBodies
                 \cup {FailedRunningBody, EmptyObject, NotJSONBody} }
  \cup { Response(<< >>, 227, b) :
           b \in { x \in RunningBodies : x.status[1] = "new" }
                 \cup StatusOnlyBodies \cup {EmptyObject, NotJSONBody} }
  \cup { Response(<< >>, 228, b) :
           b \in { x \in RunningBodies : x.status[1] = "in_progress" }
                 \cup CrashRunningBodies \cup {EmptyObject} }
  \cup { Response(<< >>, 230, b) :
           b \in { x \in FinishedBodies : x.status[1] = "failed" }
                 \cup { x \in RunningBodies : x.status[1] = "in_progress" }
                 \cup {EmptyObject} }
  \cup { Response(<< >>, 404, b) : b \in CrashErrorBodies \cup {MessageBody, NotJSONBody} }
  \cup { Response(<< >>, 500, b) : b \in {MessageBody, NotJSONBody} }
  \cup { Response(<< >>, 201, b) : b \in {EmptyObject} }

\* A body whose only member is an errors array of bare strings
ErrorsOnlyBody ==
  JSONBody(<< >>, << >>,
           << << ErrString(<< "invalid token" >>), ErrString(<< "token expired" >>) >> >>,
           << >>)

\* A body whose overallResults object holds every counter in two spellings
BothSpellingsBody ==
  JSONBody(<< "completed" >>,
           << TitleCounts(3, 0, 0, 1, 2, 0, 0, 0) @@ CamelCounts(3, 0, 0, 1, 2, 0, 0, 0) >>,
           << >>, << >>)

\* The answers the status classifiers are applied to, one at a time
ClassifyResponses ==
  { r \in StatusResponses : r.fail = << >> }
  \cup { Response(<< >>, StatusOK, b) : b \in {BothSpellingsBody, ErrorsOnlyBody} }
  \cup { Response(<< >>, code, b) :
           code \in {400, 404, 429, 500, 501},
           b \in {MessageBody, ErrorsOnlyBody, EmptyObject, NotJSONBody} }

\* The answers to a start-run request
StartResponses ==
  { Response(<< << "connection refused" >> >>, 0, NotJSONBody),
    Response(<< >>, 200, Body(TRUE, << >>, << >>, << >>, << >>, << "task-1" >>, << "{json}" >>)),
    Response(<< >>, 201, Body(TRUE, << >>, << >>, << >>, << >>, << "task-1" >>, << "{json}" >>)),
    Response(<< >>, 200, EmptyObject),
    Response(<< >>, 200, NotJSONBody),
    Response(<< >>, 500, MessageBody) }

\* The answers to a cancel-run request
CancelResponses ==
  { Response(<< << "connection refused" >> >>, 0, NotJSONBody),
    Response(<< >>, 200, EmptyObject),
    Response(<< >>, 404, MessageBody) }

\* The answers to a report request: the report, not ready yet, other failures
ReportNotReadyBody ==
  JSONBody(<< >>, << >>, << >>, << << "Report still being generated" >> >>)

ReportResponses ==
  { Response(<< << "connection refused" >> >>, 0, NotJSONBody),
    Response(<< >>, 200, Body(FALSE, << >>, << >>, << >>, << >>, << >>, << "<testsuite/>" >>)),
    Response(<< >>, 404, ReportNotReadyBody),
    Response(<< >>, 404, MessageBody),
    Response(<< >>, 500, MessageBody),
    Response(<< >>, 500, ReportNotReadyBody) }

\* ------------------------------------------------------------------------
\* State
\* ------------------------------------------------------------------------
\* The status requests of one monitorTestExecution the model follows
MaxPolls == 7

VARIABLES
  prog,               \* which entry point runs: "orchestrator" (ExecuteTestRun),
                      \* "wait" (api.TestRigorClient.WaitForTestCompletion),
                      \* "junit" (WaitForJUnitReportWithRetries), "classify"
                      \* (a status classifier on its own), "submit"
                      \* (StartTestRun on its own), "check" (the completion
                      \* checks on their own), "hash" (GenerateFakeCommitHash
                      \* on its own), "handle" (HandleStatusCheckError on
                      \* its own) or "manager" (a StatusUpdateManager on its
                      \* own, pollInterval being its update interval)
  client,             \* the client revision behind the orchestrator's apiClient
  pc,                 \* where the entry point is
  pollInterval,       \* runConfig.PollInterval (ticks) / pollInterval (seconds)
  timeout,            \* runConfig.Timeout (ticks) / timeoutMinutes
  fetchReport,        \* runConfig.FetchReport, once step 4 has read it
  ctxDone,            \* ctx.Done() is closed
  clock,              \* ticks since monitorTestExecution made its timers
  pollTick,           \* a tick waits in pollTicker.C
  statusTick,         \* a tick waits in statusTicker.C
  timeoutFired,       \* timeoutTimer.C holds its value
  consecutiveErrors,
  lastStatus,         \* monitorTestExecution's lastStatus
  polls,              \* status requests monitorTestExecution has made
  lastPoll,           \* the latest status request: the answer's code (0: none
                      \* came) and what GetTestStatus returned for it
  run,                \* StartTestRun's result
  monitorRet,         \* what the poller returned: (status, err)
  result,             \* what ExecuteTestRun returned: (result, err)
  reportRet,          \* what downloadReport / WaitForJUnitReportWithRetries returned
  lastFetch,          \* the answer to the latest report request
  failedInARow,       \* history: how many of the orchestrator's status polls,
                      \* counted back from the latest, failed without a
                      \* successful one between them
  statusCheck,        \* the latest error and counter HandleStatusCheckError was
                      \* applied to, and what came of it
  exit,               \* run-and-wait's return: the ErrorOnTestFailure setting it
                      \* ran with, its error and the process's exit code
  checked,            \* the latest snapshot a completion check was applied to
                      \* twice, and the two results
  hashed,             \* the latest timestamp GenerateFakeCommitHash was applied
                      \* to, and what came of it
  statusManager,      \* WaitForTestCompletion's StatusUpdateManager: seconds
                      \* since lastUpdate (up to pollInterval), lastStatus, lastResults, and of the
                      \* latest Update its timeSinceLast and whether it printed
  submitted,          \* the latest StartTestRun: its options, the request it
                      \* sent, the answer's code and body, what it returned
  classified,         \* the latest answer a status classifier was applied to,
                      \* and what it returned
  reportTries,        \* downloadReport's i
  retries,            \* WaitForTestCompletion's retries
  maxRetries,         \* WaitForTestCompletion's maxRetries
  cancels,            \* cancel-run requests made so far
  cancelErr           \* the error of the latest CancelTestRun, if one was made

vars == << prog, client, pc, pollInterval, timeout, fetchReport, ctxDone, clock,
           pollTick, statusTick, timeoutFired, consecutiveErrors, lastStatus,
           polls, lastPoll, run, monitorRet, result, reportRet, lastFetch,
           failedInARow, statusCheck, exit, checked, hashed, statusManager, submitted, classified,
           reportTries, retries, maxRetries,
           cancels, cancelErr >>

timerVars == << clock, pollTick, statusTick, timeoutFired >>
configVars == << prog, client, pollInterval, timeout >>
waitVars == << retries, maxRetries, cancels, cancelErr >>

\* ------------------------------------------------------------------------
\* orchestrator.TestRunner
\* ------------------------------------------------------------------------
\* client.TestRigorClient.StartTestRun on an answer r
StartTestRun(r) ==
  IF Len(r.fail) > 0
  THEN [res |-> << >>, err |-> Err(<< "failed to start test run:" >> \o r.fail[1])]
  ELSE IF r.code # 200
  THEN [res |-> << >>, err |-> parseAPIError(r.code, r.body)]
  ELSE IF ~r.body.json
  THEN [res |-> << >>, err |-> Err(<< "failed to parse response:" >>)]
  ELSE IF Len(r.body.taskId) = 0
  THEN [res |-> << >>, err |-> Err(<< "invalid response: missing taskId" >>)]
  ELSE [res |-> << [TaskID |-> r.body.taskId[1], BranchName |-> "branch"] >>,
        err |-> NoErr]

\* client.TestRigorClient.GetTestStatus on an answer r, by client revision
GetTestStatus(c, r) ==
  IF Len(r.fail) > 0
  THEN Ret(<< >>, Err(<< "failed to get test status:" >> \o r.fail[1]))
  ELSE IF c = "typed" THEN parseTestStatusTyped(r.code, r.body)
  ELSE parseTestStatus(r.code, r.body)

\* GetJUnitReport taking the 404 of a report still being generated for the
\* report itself
GetJUnitReportNotReadyAsData(r) ==
  IF Len(r.fail) > 0
  THEN [data |-> << >>, err |-> Err(<< "failed to get JUnit report:" >> \o r.fail[1])]
  ELSE IF r.code = 404
  THEN IF r.body.json /\ Len(r.body.message) > 0
          /\ Contains(r.body.message[1], "Report still being generated")
       THEN [data |-> << r.body.raw >>, err |-> NoErr]
       ELSE [data |-> << >>, err |-> Err(<< "report not found" >>)]
  ELSE IF r.code # 200
  THEN [data |-> << >>, err |-> parseAPIError(r.code, r.body)]
  ELSE [data |-> << r.body.raw >>, err |-> NoErr]

\* client.TestRigorClient.GetJUnitReport on an answer r: (data, err)
GetJUnitReport(r) ==
  IF Len(r.fail) > 0
  THEN [data |-> << >>, err |-> Err(<< "failed to get JUnit report:" >> \o r.fail[1])]
  ELSE IF r.code = 404
  THEN IF r.body.json /\ Len(r.body.message) > 0
          /\ Contains(r.body.message[1], "Report still being generated")
       THEN [data |-> << >>, err |-> Err(<< "report still being generated" >>)]
       ELSE [data |-> << >>, err |-> Err(<< "report not found" >>)]
  ELSE IF r.code # 200
  THEN [data |-> << >>, err |-> parseAPIError(r.code, r.body)]
  ELSE [data |-> << r.body.raw >>, err |-> NoErr]

\* isTestRunSuccessful
isTestRunSuccessful(status) ==
  IF Len(status) = 0 THEN FALSE
  ELSE /\ status[1].Status = StatusCompleted
       /\ status[1].Results.Failed = 0
       /\ status[1].Results.Crash = 0

\* The *TestRunResult ExecuteTestRun builds
TestRunResult(r, status, reportPath) ==
  [TaskID |-> r.TaskID, BranchName |-> r.BranchName, Status |-> status,
   ReportPath |-> reportPath, Success |-> isTestRunSuccessful(status)]

NoResult == [res |-> << >>, err |-> NoErr]

\* The latest status request: the answer's code and what GetTestStatus returned
Polled(code, got) == [code |-> code, status |-> got.status, err |-> got.err]
\* No report retrieval has returned, no report request has been answered
NoReport == [path |-> "", err |-> NoErr]
NoFetch == Response(<< >>, 0, EmptyObject)

NoPoll == [code |-> 0, status |-> << >>, err |-> NoErr]

\* ExecuteTestRun with no return on the error of monitorTestExecution
MonitorReturnsDropsErr(ret) ==
  /\ monitorRet' = ret
  /\ reportTries' = 0
  /\ polls' = 0
  /\ UNCHANGED << reportRet, lastFetch, classified, submitted, statusManager, exit,
                  checked, hashed, statusCheck >>
  /\ clock' = 0
  /\ pollTick' = FALSE
  /\ statusTick' = FALSE
  /\ timeoutFired' = FALSE
  /\ IF ret.err # NoErr
     THEN /\ pc' = "done"
          /\ result' = NoResult
          /\ UNCHANGED fetchReport
     ELSE /\ fetchReport' \in BOOLEAN
          /\ IF fetchReport'
             THEN /\ pc' = "report"
                  /\ result' = NoResult
             ELSE /\ pc' = "done"
                  /\ result' = [res |-> << TestRunResult(run[1], ret.status, "") >>,
                                err |-> NoErr]

\* ExecuteTestRun going on to step 4 on the error of monitorTestExecution
MonitorReturnsFetchesAnyway(ret) ==
  /\ monitorRet' = ret
  /\ reportTries' = 0
  /\ polls' = 0
  /\ UNCHANGED << reportRet, lastFetch, classified, submitted, statusManager, exit,
                  checked, hashed, statusCheck >>
  /\ clock' = 0
  /\ pollTick' = FALSE
  /\ statusTick' = FALSE
  /\ timeoutFired' = FALSE
  /\ IF ret.err # NoErr
     THEN /\ pc' = "report"
          /\ result' = NoResult
          /\ UNCHANGED fetchReport
     ELSE /\ fetchReport' \in BOOLEAN
          /\ IF fetchReport'
             THEN /\ pc' = "report"
                  /\ result' = NoResult
             ELSE /\ pc' = "done"
                  /\ result' = [res |-> << TestRunResult(run[1], ret.status, "") >>,
                                err |-> NoErr]

\* monitorTestExecution returns ret: its deferred Stop calls end the tickers and
\* the timer, and ExecuteTestRun goes on with steps 2 to 4
MonitorReturns(ret) ==
  /\ monitorRet' = ret
  /\ reportTries' = 0
  /\ polls' = 0
  /\ UNCHANGED << reportRet, lastFetch, classified, submitted, statusManager, exit,
                  checked, hashed, statusCheck >>
  /\ clock' = 0
  /\ pollTick' = FALSE
  /\ statusTick' = FALSE
  /\ timeoutFired' = FALSE
  /\ IF ret.err # NoErr
     THEN /\ pc' = "done"
          /\ result' = [res |-> << >>,
                        err |-> ErrN(<< "error during test execution:" >> \o ret.err.text,
                                     ret.err.num)]
          /\ UNCHANGED fetchReport
     ELSE /\ fetchReport' \in BOOLEAN
          /\ IF fetchReport'
             THEN /\ pc' = "report"
                  /\ result' = NoResult
             ELSE /\ pc' = "done"
                  /\ result' = [res |-> << TestRunResult(run[1], ret.status, "") >>,
                                err |-> NoErr]

\* ExecuteTestRun, step 1: StartTestRun; on success monitorTestExecution makes
\* its tickers and its timer
Start ==
  /\ prog = "orchestrator" /\ pc = "start"
  /\ \E r \in StartResponses :
       LET started == StartTestRun(r)
       IN IF started.err # NoErr
          THEN /\ pc' = "done"
               /\ run' = << >>
               /\ result' = [res |-> << >>,
                             err |-> Err(<< "failed to start test run:" >>
                                         \o started.err.text)]
          ELSE /\ pc' = "monitor"
               /\ run' = started.res
               /\ result' = NoResult
  /\ UNCHANGED << failedInARow, statusCheck, exit, checked, hashed, statusManager, submitted, classified, fetchReport, polls, reportRet, lastFetch, configVars, ctxDone, timerVars, consecutiveErrors, lastStatus,
                  lastPoll, monitorRet, reportTries, waitVars >>

\* Time passes while monitorTestExecution runs.  Up to the timeout the clock
\* counts ticks; after it only the tickers matter, and they fire at some time.
Tick ==
  /\ prog = "orchestrator" /\ pc = "monitor"
  /\ IF clock < timeout
     THEN /\ clock' = clock + 1
          /\ pollTick' = (pollTick \/ (clock + 1) % pollInterval = 0)
          /\ statusTick' = (statusTick \/ (clock + 1) % StatusUpdateTicks = 0)
          /\ timeoutFired' = (clock + 1 >= timeout)
     ELSE /\ clock' = clock
          /\ \E p, s \in BOOLEAN :
               /\ pollTick' = (pollTick \/ p)
               /\ statusTick' = (statusTick \/ s)
          /\ timeoutFired' = timeoutFired
  /\ UNCHANGED << failedInARow, statusCheck, exit, checked, hashed, statusManager, submitted, classified, fetchReport, polls, reportRet, lastFetch, configVars, pc, ctxDone, consecutiveErrors, lastStatus, lastPoll,
                  run, monitorRet, result, reportTries, waitVars >>

\* The caller cancels the context
CtxCancel ==
  /\ prog = "orchestrator" /\ pc = "monitor" /\ ~ctxDone
  /\ ctxDone' = TRUE
  /\ UNCHANGED << failedInARow, statusCheck, exit, checked, hashed, statusManager, submitted, classified, fetchReport, polls, reportRet, lastFetch, configVars, pc, timerVars, consecutiveErrors, lastStatus, lastPoll,
                  run, monitorRet, result, reportTries, waitVars >>

\* monitorTestExecution, case <-ctx.Done()
MonitorCtxDone ==
  /\ prog = "orchestrator" /\ pc = "monitor" /\ ctxDone
  /\ MonitorReturns(Ret(<< >>, Err(<< "context canceled" >>)))
  /\ UNCHANGED << failedInARow, configVars, ctxDone, consecutiveErrors, lastStatus, lastPoll, run,
                  waitVars >>

\* The timeout case, were the select to look at it only when no poll tick is
\* ready
MonitorTimeoutAfterPolls ==
  /\ prog = "orchestrator" /\ pc = "monitor" /\ timeoutFired /\ ~pollTick
  /\ MonitorReturns(Ret(<< >>, ErrN(<< "timeout waiting for test completion after" >>,
                                    timeout)))
  /\ UNCHANGED << failedInARow, configVars, ctxDone, consecutiveErrors, lastStatus, lastPoll, run,
                  waitVars >>

\* monitorTestExecution, case <-timeoutTimer.C
MonitorTimeout ==
  /\ prog = "orchestrator" /\ pc = "monitor" /\ timeoutFired
  /\ MonitorReturns(Ret(<< >>, ErrN(<< "timeout waiting for test completion after" >>,
                                    timeout)))
  /\ UNCHANGED << failedInARow, configVars, ctxDone, consecutiveErrors, lastStatus, lastPoll, run,
                  waitVars >>

\* monitorTestExecution with > in place of >= at the threshold: the poller
\* gives up one failing poll late
MonitorStepLate(got, n) ==
  IF got.err # NoErr
  THEN IF n + 1 > maxConsecutiveErrors
       THEN [next |-> FALSE, consecutiveErrors |-> n + 1,
             ret |-> Ret(<< >>, Err(<< "too many consecutive errors:" >> \o got.err.text))]
       ELSE [next |-> TRUE, consecutiveErrors |-> n + 1, ret |-> Ret(<< >>, NoErr)]
  ELSE IF HasCrashes(got.status[1])
  THEN [next |-> FALSE, consecutiveErrors |-> 0,
        ret |-> Ret(got.status, ErrN(<< "test crashed:", "%d test(s) crashed" >>,
                                     got.status[1].Results.Crash))]
  ELSE IF IsComplete(got.status[1])
  THEN [next |-> FALSE, consecutiveErrors |-> 0, ret |-> Ret(got.status, NoErr)]
  ELSE [next |-> TRUE, consecutiveErrors |-> 0, ret |-> Ret(<< >>, NoErr)]

\* monitorTestExecution with a threshold one lower: the poller gives up one
\* failing poll early
MonitorStepEarly(got, n) ==
  IF got.err # NoErr
  THEN IF n + 1 >= maxConsecutiveErrors - 1
       THEN [next |-> FALSE, consecutiveErrors |-> n + 1,
             ret |-> Ret(<< >>, Err(<< "too many consecutive errors:" >> \o got.err.text))]
       ELSE [next |-> TRUE, consecutiveErrors |-> n + 1, ret |-> Ret(<< >>, NoErr)]
  ELSE IF HasCrashes(got.status[1])
  THEN [next |-> FALSE, consecutiveErrors |-> 0,
        ret |-> Ret(got.status, ErrN(<< "test crashed:", "%d test(s) crashed" >>,
                                     got.status[1].Results.Crash))]
  ELSE IF IsComplete(got.status[1])
  THEN [next |-> FALSE, consecutiveErrors |-> 0, ret |-> Ret(got.status, NoErr)]
  ELSE [next |-> TRUE, consecutiveErrors |-> 0, ret |-> Ret(<< >>, NoErr)]

\* monitorTestExecution without the line consecutiveErrors = 0: the counter
\* counts every failing poll, not the consecutive ones
MonitorStepNoReset(got, n) ==
  IF got.err # NoErr
  THEN IF n + 1 >= maxConsecutiveErrors
       THEN [next |-> FALSE, consecutiveErrors |-> n + 1,
             ret |-> Ret(<< >>, Err(<< "too many consecutive errors:" >> \o got.err.text))]
       ELSE [next |-> TRUE, consecutiveErrors |-> n + 1, ret |-> Ret(<< >>, NoErr)]
  ELSE IF HasCrashes(got.status[1])
  THEN [next |-> FALSE, consecutiveErrors |-> n,
        ret |-> Ret(got.status, ErrN(<< "test crashed:", "%d test(s) crashed" >>,
                                     got.status[1].Results.Crash))]
  ELSE IF IsComplete(got.status[1])
  THEN [next |-> FALSE, consecutiveErrors |-> n, ret |-> Ret(got.status, NoErr)]
  ELSE [next |-> TRUE, consecutiveErrors |-> n, ret |-> Ret(<< >>, NoErr)]

\* What monitorTestExecution does with the answer got of one status request:
\* next tells whether the loop goes on, ret is what it returns otherwise
MonitorStep(got, n) ==
  IF got.err # NoErr
  THEN IF n + 1 >= maxConsecutiveErrors
       THEN [next |-> FALSE, consecutiveErrors |-> n + 1,
             ret |-> Ret(<< >>, Err(<< "too many consecutive errors:" >> \o got.err.text))]
       ELSE [next |-> TRUE, consecutiveErrors |-> n + 1, ret |-> Ret(<< >>, NoErr)]
  ELSE IF HasCrashes(got.status[1])
  THEN [next |-> FALSE, consecutiveErrors |-> 0,
        ret |-> Ret(got.status, ErrN(<< "test crashed:", "%d test(s) crashed" >>,
                                     got.status[1].Results.Crash))]
  ELSE IF IsComplete(got.status[1])
  THEN [next |-> FALSE, consecutiveErrors |-> 0, ret |-> Ret(got.status, NoErr)]
  ELSE [next |-> TRUE, consecutiveErrors |-> 0, ret |-> Ret(<< >>, NoErr)]

\* monitorTestExecution, case <-pollTicker.C: one status request and what the
\* loop does with its answer
MonitorPoll ==
  /\ prog = "orchestrator" /\ pc = "monitor" /\ pollTick
  /\ polls < MaxPolls
  /\ \E r \in StatusResponses :
       LET got == GetTestStatus(client, r)
           step == MonitorStep(got, consecutiveErrors)
       IN /\ lastPoll' = Polled(r.code, got)
          /\ consecutiveErrors' = step.consecutiveErrors
          /\ failedInARow' = IF got.err # NoErr THEN failedInARow + 1 ELSE 0
          /\ lastStatus' = IF got.err # NoErr THEN lastStatus ELSE got.status
          /\ IF step.next
             THEN /\ pollTick' = FALSE
                  /\ polls' = polls + 1
                  /\ UNCHANGED << pc, monitorRet, result, reportTries, clock, statusTick,
                                  timeoutFired, fetchReport, reportRet, lastFetch,
                                  classified, submitted, statusManager, exit,
                                  checked, hashed, statusCheck >>
             ELSE MonitorReturns(step.ret)
  /\ UNCHANGED << configVars, ctxDone, run, waitVars >>

\* monitorTestExecution, case <-statusTicker.C: prints lastStatus, if any
MonitorStatusTick ==
  /\ prog = "orchestrator" /\ pc = "monitor" /\ statusTick
  /\ statusTick' = FALSE
  /\ UNCHANGED << failedInARow, statusCheck, exit, checked, hashed, statusManager, submitted, classified, fetchReport, polls, reportRet, lastFetch, configVars, pc, ctxDone, clock, pollTick, timeoutFired,
                  consecutiveErrors, lastStatus, lastPoll, run, monitorRet, result,
                  reportTries, waitVars >>

\* ExecuteTestRun, were it to return the error of downloadReport
ReportDoneReturnsErr(path, err) ==
  /\ pc' = "done"
  /\ reportRet' = [path |-> path, err |-> err]
  /\ result' = IF err # NoErr
               THEN [res |-> << >>, err |-> err]
               ELSE [res |-> << TestRunResult(run[1], monitorRet.status, path) >>,
                     err |-> NoErr]

\* ExecuteTestRun returns its result with the report path downloadReport gave
ReportDone(path, err) ==
  /\ pc' = "done"
  /\ reportRet' = [path |-> path, err |-> err]
  /\ result' = [res |-> << TestRunResult(run[1], monitorRet.status, path) >>,
                err |-> NoErr]

\* downloadReport, one iteration: one report request, saved tells whether
\* os.WriteFile succeeds
DownloadAttempt ==
  /\ prog = "orchestrator" /\ pc = "report"
  /\ reportTries < downloadMaxRetries
  /\ \E r \in ReportResponses, saved \in BOOLEAN :
       LET got == GetJUnitReport(r)
       IN /\ lastFetch' = r
          /\ IF got.err # NoErr
             THEN IF got.err.text = << "report still being generated" >>
                  THEN /\ reportTries' = reportTries + 1
                       /\ UNCHANGED << pc, result, reportRet >>
                  ELSE /\ ReportDone("", got.err)
                       /\ UNCHANGED reportTries
             ELSE /\ IF saved
                     THEN ReportDone("test-report.xml", NoErr)
                     ELSE ReportDone("", Err(<< "failed to save report:", "write error" >>))
                  /\ UNCHANGED reportTries
  /\ UNCHANGED << failedInARow, statusCheck, exit, checked, hashed, statusManager, submitted, classified, fetchReport, polls, configVars, ctxDone, timerVars, consecutiveErrors, lastStatus, lastPoll,
                  run, monitorRet, waitVars >>

\* downloadReport, after maxRetries iterations
DownloadExhausted ==
  /\ prog = "orchestrator" /\ pc = "report"
  /\ reportTries >= downloadMaxRetries
  /\ ReportDone("", ErrN(<< "report not ready after", "%d attempts" >>, downloadMaxRetries))
  /\ UNCHANGED << failedInARow, statusCheck, exit, checked, hashed, statusManager, submitted, classified, fetchReport, polls, lastFetch, configVars, ctxDone, timerVars, consecutiveErrors, lastStatus, lastPoll,
                  run, monitorRet, reportTries, waitVars >>

\* ------------------------------------------------------------------------
\* api.TestRigorClient.WaitForTestCompletion
\* ------------------------------------------------------------------------
\* api.TestRigorClient.GetTestStatus on an answer r: the status code takes no
\* part, the body goes to StatusInterpreter.ParseTestStatus
apiGetTestStatus(r) ==
  IF Len(r.fail) > 0
  THEN Ret(<< >>, Err(<< "error making request:" >> \o r.fail[1]))
  ELSE ParseTestStatus(r.code, r.body)

\* string(bodyBytes): a JSON body's text holds the text of its message member
BodyText(body) ==
  body.raw \o (IF body.json /\ Len(body.message) > 0 THEN body.message[1] ELSE << >>)

\* client.MakeRequest on an answer r: its error
MakeRequest(r) ==
  IF Len(r.fail) > 0 THEN Err(<< "error making request:" >> \o r.fail[1])
  ELSE IF r.code >= 400
  THEN Err(<< "API request failed with", StatusTok(r.code) >> \o BodyText(r.body))
  ELSE NoErr

\* utils.HandleStatusCheckError: (shouldContinue, err) and the counter it leaves
HandleStatusCheckError(err, n) ==
  IF Contains(err.text, StatusTok(StatusTestInProgress227))
     \/ Contains(err.text, StatusTok(StatusTestInProgress228))
  THEN IF n + 1 >= maxConsecutiveErrors
       THEN [shouldContinue |-> FALSE,
             err |-> ErrN(<< "received %d consecutive errors while checking test status:" >>
                          \o err.text, n + 1),
             consecutiveErrors |-> n + 1]
       ELSE [shouldContinue |-> TRUE, err |-> NoErr, consecutiveErrors |-> n + 1]
  ELSE [shouldContinue |-> FALSE, err |-> err, consecutiveErrors |-> n]

\* WaitForTestCompletion returning err with no deferred cancel-run request
WaitReturnsNoCancel(err) ==
  /\ pc' = "returned"
  /\ monitorRet' = Ret(<< >>, err)

\* WaitForTestCompletion returns err: the deferred cancel-run request is next
WaitReturns(err) ==
  /\ pc' = "deferred"
  /\ monitorRet' = Ret(<< >>, err)

\* WaitForTestCompletion, were maxRetries one more than the quotient
WaitEnterOneMore ==
  /\ prog = "wait" /\ pc = "entry"
  /\ IF pollInterval = 0
     THEN /\ pc' = "panic"
          /\ UNCHANGED maxRetries
     ELSE /\ pc' = "loop"
          /\ maxRetries' = (timeout * 60) \div pollInterval + 1
  /\ UNCHANGED << failedInARow, statusCheck, exit, checked, hashed, statusManager,
                  submitted, classified, fetchReport, polls, reportRet, lastFetch,
                  configVars, ctxDone, timerVars, consecutiveErrors, lastStatus, lastPoll,
                  run, monitorRet, result, reportTries, retries, cancels, cancelErr >>

\* WaitForTestCompletion up to its loop: maxRetries, and the deferred cancel
WaitEnter ==
  /\ prog = "wait" /\ pc = "entry"
  /\ IF pollInterval = 0
     THEN /\ pc' = "panic"
          /\ UNCHANGED maxRetries
     ELSE /\ pc' = "loop"
          /\ maxRetries' = (timeout * 60) \div pollInterval
  /\ UNCHANGED << failedInARow, statusCheck, exit, checked, hashed, statusManager, submitted, classified, fetchReport, polls, reportRet, lastFetch, configVars, ctxDone, timerVars, consecutiveErrors, lastStatus, lastPoll,
                  run, monitorRet, result, reportTries, retries, cancels,
                  cancelErr >>

\* The loop, when retries >= maxRetries
WaitTimeout ==
  /\ prog = "wait" /\ pc = "loop"
  /\ retries >= maxRetries
  /\ WaitReturns(ErrN(<< "timed out waiting for test completion after", "%d minutes" >>,
                      timeout))
  /\ UNCHANGED << failedInARow, statusCheck, exit, checked, hashed, statusManager, submitted, classified, fetchReport, polls, reportRet, lastFetch, configVars, ctxDone, timerVars, consecutiveErrors, lastStatus, lastPoll,
                  run, result, reportTries, waitVars >>

\* What the loop of WaitForTestCompletion does with the answer got of one
\* status request: next tells whether it sleeps and goes on, err is what it
\* returns otherwise
WaitStep(got, n) ==
  IF got.err # NoErr
  THEN IF Contains(got.err.text, "test crashed:")
       THEN [next |-> FALSE, consecutiveErrors |-> n, err |-> got.err]
       ELSE LET handled == HandleStatusCheckError(got.err, n)
            IN [next |-> handled.shouldContinue,
                consecutiveErrors |-> handled.consecutiveErrors, err |-> handled.err]
  ELSE IF Len(got.status) = 0
  THEN [next |-> TRUE, consecutiveErrors |-> 0, err |-> NoErr]
  ELSE IF got.status[1].Results.Crash > 0
  THEN [next |-> FALSE, consecutiveErrors |-> 0,
        err |-> ErrN(<< "test crashed:", "%d test(s) crashed" >>,
                     got.status[1].Results.Crash)]
  ELSE IF \/ got.status[1].Status = "Failed"
          \/ got.status[1].Results.Failed > 0
          \/ got.status[1].HTTPStatusCode = 230
  THEN [next |-> FALSE, consecutiveErrors |-> 0, err |-> NoErr]
  ELSE IF CheckTestCompletion(got.status[1])
  THEN [next |-> FALSE, consecutiveErrors |-> 0, err |-> NoErr]
  ELSE [next |-> TRUE, consecutiveErrors |-> 0, err |-> NoErr]

\* client.NewStatusUpdateManager: lastUpdate is now, nothing displayed
NewStatusUpdateManager ==
  [sinceUpdate |-> 0, timeSinceLast |-> 0, lastStatus |-> "",
   lastResults |-> ZeroResults, printed |-> FALSE]

\* The manager d seconds later: time.Now() has moved on from lastUpdate. The
\* seconds are counted up to the update interval, all that Update compares
After(m, d) ==
  [m EXCEPT !.sinceUpdate = IF @ + d >= pollInterval THEN pollInterval ELSE @ + d]

\* Update, were it to print whatever time has passed
UpdateUnlimited(m, status) ==
  [sinceUpdate |-> 0, timeSinceLast |-> m.sinceUpdate,
   lastStatus |-> status.Status, lastResults |-> status.Results, printed |-> TRUE]

\* client.StatusUpdateManager.Update, the update interval being pollInterval
Update(m, status) ==
  IF m.sinceUpdate < pollInterval
  THEN [m EXCEPT !.timeSinceLast = m.sinceUpdate, !.printed = FALSE]
  ELSE [sinceUpdate |-> 0, timeSinceLast |-> m.sinceUpdate,
        lastStatus |-> status.Status, lastResults |-> status.Results,
        printed |-> TRUE]

\* The seconds a status request takes
Latencies == {0, 10}

\* The loop, one iteration: one status request and what the loop does with
\* its answer
WaitPoll ==
  /\ prog = "wait" /\ pc = "loop"
  /\ retries < maxRetries
  /\ retries' = retries + 1
  /\ \E r \in StatusResponses, d \in Latencies :
       LET got == apiGetTestStatus(r)
           step == WaitStep(got, consecutiveErrors)
           m == IF got.err = NoErr /\ Len(got.status) = 1
                THEN Update(After(statusManager, d), got.status[1])
                ELSE [After(statusManager, d) EXCEPT !.printed = FALSE]
       IN /\ lastPoll' = Polled(r.code, got)
          /\ consecutiveErrors' = step.consecutiveErrors
          /\ IF step.next
             THEN /\ statusManager' = After(m, pollInterval)
                  /\ UNCHANGED << pc, monitorRet >>
             ELSE /\ statusManager' = m
                  /\ WaitReturns(step.err)
  /\ UNCHANGED << failedInARow, statusCheck, exit, checked, hashed, submitted, classified, fetchReport, polls, reportRet, lastFetch, configVars, ctxDone, timerVars, lastStatus, run, result, reportTries,
                  maxRetries, cancels, cancelErr >>

\* The deferred function, were it to return the cancel-run request's error
\* when the loop returned none
WaitCancelEscalates ==
  /\ prog = "wait" /\ pc = "deferred"
  /\ \E r \in CancelResponses :
       /\ cancelErr' = << MakeRequest(r) >>
       /\ cancels' = cancels + 1
       /\ monitorRet' = IF monitorRet.err = NoErr
                        THEN Ret(<< >>, MakeRequest(r)) ELSE monitorRet
  /\ pc' = "returned"
  /\ UNCHANGED << failedInARow, statusCheck, exit, checked, hashed, statusManager, submitted, classified, fetchReport, polls, reportRet, lastFetch, configVars, ctxDone, timerVars, consecutiveErrors, lastStatus, lastPoll,
                  run, result, reportTries, retries, maxRetries >>

\* The deferred function: one cancel-run request, its error only printed
WaitCancel ==
  /\ prog = "wait" /\ pc = "deferred"
  /\ \E r \in CancelResponses :
       /\ cancelErr' = << MakeRequest(r) >>
       /\ cancels' = cancels + 1
  /\ pc' = "returned"
  /\ UNCHANGED << failedInARow, statusCheck, exit, checked, hashed, statusManager, submitted, classified, fetchReport, polls, reportRet, lastFetch, configVars, ctxDone, timerVars, consecutiveErrors, lastStatus, lastPoll,
                  run, monitorRet, result, reportTries, retries, maxRetries >>

\* ------------------------------------------------------------------------
\* Specification
\* ------------------------------------------------------------------------
\* ------------------------------------------------------------------------
\* api.TestRigorClient.WaitForJUnitReportWithRetries
\* ------------------------------------------------------------------------
\* strings.Contains(err.Error(), "still being generated")
StillBeingGenerated(text) ==
  Contains(text, "Report still being generated")
  \/ Contains(text, "report still being generated")

\* strings.Contains(err.Error(), "API request failed with status 404")
RequestFailed404(text) ==
  \E i \in 1..(Len(text) - 1) :
    text[i] = "API request failed with" /\ text[i + 1] = StatusTok(StatusNotFound)

\* api.TestRigorClient.GetJUnitReport on an answer r: its error; saved tells
\* whether os.WriteFile succeeds
apiGetJUnitReport(r, saved) ==
  LET err == MakeRequest(r)
  IN IF err # NoErr
     THEN IF Contains(err.text, "Report still being generated")
          THEN Err(<< "Report still being generated" >>)
          ELSE err
     ELSE IF saved THEN NoErr
     ELSE Err(<< "error saving report:", "write error" >>)

\* WaitForJUnitReportWithRetries returns err
JUnitReturns(err) ==
  /\ pc' = "reported"
  /\ reportRet' = [path |-> IF err = NoErr THEN "test-report.xml" ELSE "", err |-> err]

\* The loop, when retries >= maxRetries
JUnitTimeout ==
  /\ prog = "junit" /\ pc = "junit"
  /\ retries >= maxRetries
  /\ JUnitReturns(ErrN(<< "timed out waiting for JUnit report after", "%d attempts" >>,
                       maxRetries))
  /\ UNCHANGED << failedInARow, statusCheck, exit, checked, hashed, statusManager, submitted, classified, fetchReport, polls, lastFetch, configVars, ctxDone, timerVars,
                  consecutiveErrors, lastStatus, lastPoll, run, monitorRet, result,
                  reportTries, waitVars >>

\* The loop, one iteration: retries++, one report request
JUnitAttempt ==
  /\ prog = "junit" /\ pc = "junit"
  /\ retries < maxRetries
  /\ retries' = retries + 1
  /\ \E r \in ReportResponses, saved \in BOOLEAN :
       LET err == apiGetJUnitReport(r, saved)
       IN /\ lastFetch' = r
          /\ IF err = NoErr
             THEN JUnitReturns(NoErr)
             ELSE IF StillBeingGenerated(err.text) \/ RequestFailed404(err.text)
             THEN UNCHANGED << pc, reportRet >>
             ELSE JUnitReturns(err)
  /\ UNCHANGED << failedInARow, statusCheck, exit, checked, hashed, statusManager, submitted, classified, fetchReport, polls, configVars, ctxDone, timerVars, consecutiveErrors,
                  lastStatus, lastPoll, run, monitorRet, result, reportTries, maxRetries,
                  cancels, cancelErr >>

\* ------------------------------------------------------------------------
\* cmd: run-and-wait, after WaitForTestCompletion has returned
\* ------------------------------------------------------------------------
\* runAndWaitCmd.RunE from the return waitErr of WaitForTestCompletion on:
\* the error it returns, fetch telling whether --fetch-report is given and
\* reportErr being what WaitForJUnitReport returns
RunE(waitErr, errorOnTestFailure, fetch, reportErr) ==
  LET err == IF /\ waitErr # NoErr
                /\ Contains(waitErr.text, "test run failed")
                /\ ~errorOnTestFailure
             THEN NoErr ELSE waitErr
  IN IF waitErr # NoErr
        /\ ~(Contains(waitErr.text, "test run failed") /\ ~errorOnTestFailure)
     THEN waitErr
     ELSE IF fetch /\ reportErr # NoErr
     THEN Err(<< "error fetching JUnit report:" >> \o reportErr.text)
     ELSE IF err # NoErr /\ errorOnTestFailure THEN err
     ELSE NoErr

\* main: the process's exit code for what cmd.Execute returns
ExitCode(err) == IF err # NoErr THEN 1 ELSE 0

NoExit == [done |-> FALSE, errorOnTestFailure |-> FALSE, reportFailed |-> FALSE,
           err |-> NoErr, code |-> 0]

\* What WaitForJUnitReport returns
JUnitReturnValues ==
  {NoErr, Err(<< "timed out waiting for JUnit report after", "60 attempts" >>)}

\* run-and-wait returns, WaitForTestCompletion having returned
RunAndWaitExit ==
  /\ prog = "wait" /\ pc = "returned"
  /\ ~exit.done
  /\ \E errorOnTestFailure \in BOOLEAN, fetch \in BOOLEAN, reportErr \in JUnitReturnValues :
       LET err == RunE(monitorRet.err, errorOnTestFailure, fetch, reportErr)
       IN exit' = [done |-> TRUE, errorOnTestFailure |-> errorOnTestFailure,
                   reportFailed |-> (err # NoErr /\ Head(err.text) = "error fetching JUnit report:"),
                   err |-> err, code |-> ExitCode(err)]
  /\ UNCHANGED << failedInARow, statusCheck, checked, hashed, statusManager, submitted, classified, fetchReport, polls,
                  reportRet, lastFetch, configVars, pc, ctxDone, timerVars, consecutiveErrors,
                  lastStatus, lastPoll, run, monitorRet, result, reportTries, waitVars >>

\* ------------------------------------------------------------------------
\* Submission: the start-run request and what StartTestRun returns
\* ------------------------------------------------------------------------
\* A string is a sequence of pieces; the empty string is << >>.
\* len(): the characters of a piece, of a string
Width(piece) ==
  CASE piece = "66616b65" -> 8
    [] piece = "20241027" -> 8
    [] piece = "033320" -> 6
    [] piece = "0123456789abcdef" -> 16
    [] piece = "12345678901234567890123456789012" -> 32
    [] OTHER -> 1

RECURSIVE StrLen(_)
StrLen(str) == IF str = << >> THEN 0 ELSE Width(Head(str)) + StrLen(Tail(str))

\* strings.ReplaceAll(timestamp, "-", "")
RECURSIVE RemoveHyphens(_)
RemoveHyphens(str) ==
  IF str = << >> THEN << >>
  ELSE (IF Head(str) = "-" THEN << >> ELSE << Head(str) >>) \o RemoveHyphens(Tail(str))

\* strings.Repeat("0", n), for n >= 0
Zeros(n) == [i \in 1..n |-> "0"]

\* utils.GenerateFakeCommitHash: strings.Repeat panics on a negative count
GenerateFakeCommitHash(timestamp) ==
  LET base == << "66616b65" >> \o RemoveHyphens(timestamp)
  IN IF 40 - StrLen(base) < 0
     THEN [panic |-> TRUE, hash |-> << >>]
     ELSE [panic |-> FALSE, hash |-> base \o Zeros(40 - StrLen(base))]

\* time.Now(): as Unix seconds, and in the layout "20060102-150405"
UnixNow == << "1", "7", "3", "0", "0", "0", "0", "0", "0", "0" >>
FormattedNow == << "20241027", "-", "033320" >>

\* strings.Join(labels, "-"), labels being strings
RECURSIVE JoinLabels(_)
JoinLabels(labels) ==
  IF labels = << >> THEN << >>
  ELSE IF Len(labels) = 1 THEN labels[1]
  ELSE labels[1] \o << "-" >> \o JoinLabels(Tail(labels))

\* The request body of a start-run request: every optional member is a
\* sequence of length 0 or 1
RequestBody(uuids, url, branch, labels, excludedLabels, customName, force, skipXray) ==
  [testCaseUuids |-> uuids, url |-> url, branch |-> branch, labels |-> labels,
   excludedLabels |-> excludedLabels, customName |-> customName,
   forceCancelPreviousTesting |-> force, skipXrayCloud |-> skipXray]

\* client.TestRigorClient.generateBranchName
generateBranchName(labels) ==
  IF Len(labels) > 0 THEN JoinLabels(labels) \o << "-" >> \o UnixNow
  ELSE << "fake-branch-" >> \o UnixNow

\* client.TestRigorClient.generateFakeCommitHash
generateFakeCommitHash == << "66616b65", "12345678901234567890123456789012" >>

\* client.TestRigorClient.buildBranchInfo: nil is << >>
buildBranchInfo(opts) ==
  IF opts.CommitHash # << >> /\ opts.BranchName = << >> THEN << >>
  ELSE IF opts.BranchName = << >> /\ Len(opts.Labels) = 0 THEN << >>
  ELSE << [name |-> IF opts.BranchName = << >> THEN generateBranchName(opts.Labels)
                    ELSE opts.BranchName,
           commit |-> IF opts.CommitHash # << >> THEN opts.CommitHash
                      ELSE generateFakeCommitHash] >>

\* buildStartTestRunBody with no return after the test-case identifiers
buildStartTestRunBodyNoReturn(opts) ==
  LET branchInfo == buildBranchInfo(opts)
  IN RequestBody(IF Len(opts.TestCaseUUIDs) > 0 THEN << opts.TestCaseUUIDs >> ELSE << >>,
                 IF opts.URL # << >> /\ (branchInfo # << >> \/ Len(opts.TestCaseUUIDs) > 0)
                 THEN << opts.URL >> ELSE << >>,
                 branchInfo,
                 IF Len(opts.Labels) > 0 THEN << opts.Labels >> ELSE << >>,
                 IF Len(opts.Labels) > 0 THEN << opts.ExcludedLabels >> ELSE << >>,
                 IF opts.CustomName # << >> THEN << opts.CustomName >> ELSE << >>,
                 opts.ForceCancelPreviousTesting, ~opts.MakeXrayReports)

\* client.TestRigorClient.buildStartTestRunBody
buildStartTestRunBody(opts) ==
  IF Len(opts.TestCaseUUIDs) > 0
  THEN RequestBody(<< opts.TestCaseUUIDs >>,
                   IF opts.URL # << >> THEN << opts.URL >> ELSE << >>,
                   << >>, << >>, << >>, << >>,
                   opts.ForceCancelPreviousTesting, ~opts.MakeXrayReports)
  ELSE LET branchInfo == buildBranchInfo(opts)
       IN RequestBody(<< >>,
                      IF opts.URL # << >> /\ branchInfo # << >> THEN << opts.URL >>
                      ELSE << >>,
                      branchInfo,
                      IF Len(opts.Labels) > 0 THEN << opts.Labels >> ELSE << >>,
                      IF Len(opts.Labels) > 0 THEN << opts.ExcludedLabels >> ELSE << >>,
                      IF opts.CustomName # << >> THEN << opts.CustomName >> ELSE << >>,
                      opts.ForceCancelPreviousTesting, ~opts.MakeXrayReports)

\* extractBranchName reading the options alone
extractBranchNameOptsOnly(opts, body) == opts.BranchName

\* client.TestRigorClient.extractBranchName
extractBranchName(opts, body) ==
  IF opts.BranchName # << >> THEN opts.BranchName
  ELSE IF Len(body.branch) > 0 THEN body.branch[1].name
  ELSE << >>

\* api.TestRigorClient.prepareBranchInfo: (branchName, the branch member)
prepareBranchInfo(opts) ==
  IF opts.CommitHash # << >> /\ opts.BranchName = << >>
  THEN [branchName |-> << >>, branch |-> << >>]
  ELSE IF opts.BranchName = << >> /\ Len(opts.Labels) = 0
  THEN [branchName |-> << >>, branch |-> << >>]
  ELSE LET branchName == IF opts.BranchName # << >> THEN opts.BranchName
                         ELSE IF Len(opts.Labels) > 0
                         THEN JoinLabels(opts.Labels) \o << "-" >> \o FormattedNow
                         ELSE << "fake-branch-" >> \o FormattedNow
       IN [branchName |-> branchName,
           branch |-> << [name |-> branchName,
                          commit |-> IF opts.CommitHash # << >> THEN opts.CommitHash
                                     ELSE GenerateFakeCommitHash(FormattedNow).hash] >>]

\* api.TestRigorClient.prepareRequestBody: (body, branchName)
prepareRequestBody(opts) ==
  IF Len(opts.TestCaseUUIDs) > 0
  THEN [body |-> RequestBody(<< opts.TestCaseUUIDs >>,
                             IF opts.URL # << >> THEN << opts.URL >> ELSE << >>,
                             << >>, << >>, << >>, << >>,
                             opts.ForceCancelPreviousTesting, ~opts.MakeXrayReports),
        branchName |-> << >>]
  ELSE LET info == prepareBranchInfo(opts)
       IN [body |-> RequestBody(<< >>,
                                IF info.branch # << >> /\ opts.URL # << >>
                                THEN << opts.URL >> ELSE << >>,
                                info.branch,
                                IF Len(opts.Labels) > 0 THEN << opts.Labels >> ELSE << >>,
                                IF Len(opts.Labels) > 0 THEN << opts.ExcludedLabels >>
                                ELSE << >>,
                                IF opts.CustomName # << >> THEN << opts.CustomName >>
                                ELSE << >>,
                                opts.ForceCancelPreviousTesting, ~opts.MakeXrayReports),
            branchName |-> info.branchName]

\* utils.ParseErrorResponse
ParseErrorResponse(body) ==
  IF ~body.json THEN Err(<< "error parsing error response:", "invalid character" >>)
  ELSE IF Len(body.message) > 0 THEN Err(<< "API error:" >> \o body.message[1])
  ELSE Err(<< "unknown API error:" >> \o body.raw)

\* api.TestRigorClient.StartTestRun on an answer r, the branch name being
\* the one prepareRequestBody gave
apiStartTestRun(branchName, r) ==
  LET err == MakeRequest(r)
  IN IF err # NoErr THEN [res |-> << >>, err |-> err]
     ELSE IF ~r.body.json
     THEN [res |-> << >>, err |-> Err(<< "error parsing response:", "invalid character" >>)]
     ELSE IF Len(r.body.taskId) > 0
     THEN [res |-> << [TaskID |-> r.body.taskId[1], BranchName |-> branchName] >>,
           err |-> NoErr]
     ELSE [res |-> << >>, err |-> ParseErrorResponse(r.body)]

\* utils.ValidateTestRunOptions
ValidateTestRunOptions(opts) ==
  IF Len(opts.TestCaseUUIDs) = 0 /\ Len(opts.Labels) = 0
  THEN Err(<< "either TestCaseUUIDs or Labels must be provided" >>)
  ELSE IF Len(opts.TestCaseUUIDs) > 0 /\ Len(opts.Labels) > 0
  THEN Err(<< "cannot specify both TestCaseUUIDs and Labels simultaneously" >>)
  ELSE IF opts.CommitHash # << >> /\ StrLen(opts.CommitHash) # 40
  THEN Err(<< "commit hash must be 40 characters long" >>)
  ELSE NoErr

\* The run options a submission is made with
RunOptions ==
  [TestCaseUUIDs : {<< >>, << "uuid-1" >>},
   Labels : {<< >>, << << "smoke" >> >>, << << "smoke" >>, << "fast" >> >>},
   ExcludedLabels : {<< >>},
   BranchName : {<< >>, << "ci-1" >>},
   CommitHash : {<< >>, << "0123456789abcdef", "0123456789abcdef", "66616b65" >>},
   URL : {<< >>, << "https://app.example" >>},
   CustomName : {<< >>, << "nightly" >>},
   ForceCancelPreviousTesting : {FALSE},
   MakeXrayReports : {FALSE}]

NoSubmitted ==
  [opts |-> << >>, request |-> << >>, code |-> 0, body |-> EmptyObject,
   got |-> [res |-> << >>, err |-> NoErr]]

\* One StartTestRun: the request it sends, the answer r it gets, what it returns
Submit ==
  /\ prog = "submit" /\ pc = "submit"
  /\ \E opts \in RunOptions, r \in StartResponses :
       submitted' =
         IF client = "current"
         THEN LET body == buildStartTestRunBody(opts)
                  got == StartTestRun(r)
              IN [opts |-> << opts >>, request |-> << body >>, code |-> r.code,
                  body |-> r.body,
                  got |-> IF got.err # NoErr THEN got
                          ELSE [res |-> << [TaskID |-> got.res[1].TaskID,
                                            BranchName |-> extractBranchName(opts, body)] >>,
                                err |-> NoErr]]
         ELSE LET prepared == prepareRequestBody(opts)
              IN [opts |-> << opts >>, request |-> << prepared.body >>, code |-> r.code,
                  body |-> r.body, got |-> apiStartTestRun(prepared.branchName, r)]
  /\ pc' = "done"
  /\ UNCHANGED << failedInARow, statusCheck, exit, checked, hashed, statusManager, classified, fetchReport, polls, reportRet,
                  lastFetch,
                  configVars, ctxDone, timerVars, consecutiveErrors, lastStatus, lastPoll, run,
                  monitorRet, result, reportTries, waitVars >>

\* ------------------------------------------------------------------------
\* The completion checks, applied twice to one snapshot
\* ------------------------------------------------------------------------
\* The snapshots the checks are applied to
Snapshots ==
  { TestStatus(status, << >>, results, code) :
      status \in {"in_progress", "completed", "Completed", "failed", "new"},
      results \in {ZeroResults,
                   TestResults(3, 1, 1, 0, 1, 0, 0, 0),
                   TestResults(3, 0, 0, 0, 2, 0, 1, 0),
                   TestResults(3, 0, 0, 1, 2, 0, 0, 0),
                   TestResults(3, 0, 0, 0, 3, 0, 0, 0)},
      code \in {StatusOK, StatusTestInProgress227} }

NoChecked == [status |-> << >>, results |-> << >>]

\* The checks, were CheckTestCompletion to answer true only from its second
\* call on
ApplyCheckCounting(status) ==
  [CheckTestCompletion |-> CheckTestCompletion(status) /\ checked # NoChecked,
   IsComplete |-> IsComplete(status)]

\* utils.CheckTestCompletion and (ts *TestStatus) IsComplete on one snapshot
ApplyCheck(status) ==
  [CheckTestCompletion |-> CheckTestCompletion(status),
   IsComplete |-> IsComplete(status)]

\* One application of the checks: the first to a snapshot, the second to the
\* same snapshot
Check ==
  /\ prog = "check" /\ pc = "check"
  /\ Len(checked.results) < 2
  /\ IF checked = NoChecked
     THEN \E status \in Snapshots :
            checked' = [status |-> << status >>, results |-> << ApplyCheck(status) >>]
     ELSE checked' = [checked EXCEPT
                        !.results = Append(@, ApplyCheck(checked.status[1]))]
  /\ UNCHANGED << failedInARow, statusCheck, exit, hashed, statusManager, submitted, classified, fetchReport, polls,
                  reportRet, lastFetch, configVars, pc, ctxDone, timerVars,
                  consecutiveErrors, lastStatus, lastPoll, run, monitorRet, result,
                  reportTries, waitVars >>

\* ------------------------------------------------------------------------
\* utils.GenerateFakeCommitHash, applied to one timestamp
\* ------------------------------------------------------------------------
\* The pieces a timestamp is made of, and how many of them at most
TimestampPieces == {"-", "20241027", "033320", "0123456789abcdef"}
MaxPieces == 3

Timestamps == UNION { [1..n -> TimestampPieces] : n \in 0..MaxPieces }

NoHashed == << >>

\* One call of GenerateFakeCommitHash
Hash ==
  /\ prog = "hash" /\ pc = "hash"
  /\ \E timestamp \in Timestamps :
       hashed' = << [timestamp |-> timestamp, got |-> GenerateFakeCommitHash(timestamp)] >>
  /\ pc' = "done"
  /\ UNCHANGED << failedInARow, statusCheck, exit, checked, statusManager, submitted, classified, fetchReport, polls,
                  reportRet, lastFetch, configVars, ctxDone, timerVars, consecutiveErrors,
                  lastStatus, lastPoll, run, monitorRet, result, reportTries, waitVars >>

\* ------------------------------------------------------------------------
\* utils.HandleStatusCheckError, applied to one error and counter
\* ------------------------------------------------------------------------
\* The errors it is applied to: those GetTestStatus returns for the answers
\* to a status request, and the bare texts of its own test
StatusCheckErrors ==
  { apiGetTestStatus(r).err : r \in StatusResponses }
  \cup { Err(<< StatusTok(code) >>) :
           code \in {StatusTestInProgress227, StatusTestInProgress228, StatusNotFound} }
  \cup { Err(<< "API error (", StatusTok(StatusNotFound), "): Test not found" >>) }

NoHandled == << >>

\* One call of HandleStatusCheckError, the counter being n before it
Handle ==
  /\ prog = "handle" /\ pc = "handle"
  /\ \E err \in StatusCheckErrors \ {NoErr}, n \in 0..maxConsecutiveErrors :
       statusCheck' = << [err |-> err, consecutiveErrors |-> n,
                      got |-> HandleStatusCheckError(err, n)] >>
  /\ pc' = "done"
  /\ UNCHANGED << failedInARow, exit, checked, hashed, statusManager, submitted,
                  classified, fetchReport, polls, reportRet, lastFetch, configVars, ctxDone,
                  timerVars, consecutiveErrors, lastStatus, lastPoll, run, monitorRet,
                  result, reportTries, waitVars >>

\* ------------------------------------------------------------------------
\* client.StatusUpdateManager.Update, called at any pace
\* ------------------------------------------------------------------------
\* The update intervals a manager is made with, the seconds between two calls
\* of Update, and the snapshots it is called with
UpdateIntervals == {0, 10, 30}
Delays == {0, 5, 10}
ManagerSnapshots ==
  { TestStatus(status, << >>, results, StatusOK) :
      status \in {"in_progress", "completed"},
      results \in {ZeroResults, TestResults(3, 1, 1, 0, 1, 0, 0, 0)} }

\* One call of Update, d seconds after the call before it
ManagerUpdate ==
  /\ prog = "manager" /\ pc = "manager"
  /\ \E d \in Delays, status \in ManagerSnapshots :
       statusManager' = Update(After(statusManager, d), status)
  /\ UNCHANGED << failedInARow, statusCheck, exit, checked, hashed, submitted, classified, fetchReport,
                  polls, reportRet, lastFetch, configVars, pc, ctxDone, timerVars,
                  consecutiveErrors, lastStatus, lastPoll, run, monitorRet, result,
                  reportTries, waitVars >>

\* ------------------------------------------------------------------------
\* The status classifiers, applied to one answer at a time
\* ------------------------------------------------------------------------
\* What classifier c returns for a status code and a body
StatusClassifier(c, statusCode, body) ==
  CASE c = "typed" -> parseTestStatusTyped(statusCode, body)
    [] c = "current" -> parseTestStatus(statusCode, body)
    [] c = "api" -> ParseTestStatus(statusCode, body)
    [] OTHER -> InterpretResponse(statusCode, body)

NoClassified == [code |-> 0, body |-> EmptyObject, got |-> Ret(<< >>, NoErr)]

\* One call of the classifier on an answer of the service
Classify ==
  /\ prog = "classify" /\ pc = "classify"
  /\ \E r \in ClassifyResponses :
       classified' = [code |-> r.code, body |-> r.body,
                      got |-> StatusClassifier(client, r.code, r.body)]
  /\ UNCHANGED << failedInARow, statusCheck, exit, checked, hashed, statusManager, submitted, fetchReport, polls, reportRet, lastFetch, configVars, pc, ctxDone,
                  timerVars, consecutiveErrors, lastStatus, lastPoll, run, monitorRet,
                  result, reportTries, waitVars >>

\* PollInterval and Timeout in ticks of 10 s: 10 s and 20 s, one minute
PollIntervals == {1, 2}
Timeouts == {6}
WaitPollIntervals == {0, 10, 30, 60, 90}
WaitTimeoutMinutes == {0, 1}
\* maxRetries of WaitForJUnitReportWithRetries
JUnitMaxRetries == {0, 1, 2, 3}

Init ==
  /\ prog \in {"orchestrator", "wait", "junit", "classify", "submit", "check", "hash",
               "handle", "manager"}
  /\ IF prog = "orchestrator"
     THEN /\ client \in {"typed", "current"}
          /\ pc = "start"
          /\ pollInterval \in PollIntervals
          /\ timeout \in Timeouts
          /\ maxRetries = 0
     ELSE IF prog = "wait"
     THEN /\ client = "api"
          /\ pc = "entry"
          /\ pollInterval \in WaitPollIntervals
          /\ timeout \in WaitTimeoutMinutes
          /\ maxRetries = 0
     ELSE IF prog = "junit"
     THEN /\ client = "api"
          /\ pc = "junit"
          /\ pollInterval = 10
          /\ timeout = 0
          /\ maxRetries \in JUnitMaxRetries
     ELSE IF prog = "classify"
     THEN /\ client \in {"typed", "current", "api", "interpret"}
          /\ pc = "classify"
          /\ pollInterval = 10
          /\ timeout = 0
          /\ maxRetries = 0
     ELSE IF prog = "submit"
     THEN /\ client \in {"current", "api"}
          /\ pc = "submit"
          /\ pollInterval = 10
          /\ timeout = 0
          /\ maxRetries = 0
     ELSE IF prog = "manager"
     THEN /\ client = "current"
          /\ pc = "manager"
          /\ pollInterval \in UpdateIntervals
          /\ timeout = 0
          /\ maxRetries = 0
     ELSE /\ client = "api"
          /\ pc = prog
          /\ pollInterval = 10
          /\ timeout = 0
          /\ maxRetries = 0
  /\ fetchReport = FALSE
  /\ ctxDone = FALSE
  /\ clock = 0
  /\ polls = 0
  /\ pollTick = FALSE
  /\ statusTick = FALSE
  /\ timeoutFired = FALSE
  /\ consecutiveErrors = 0
  /\ lastStatus = << >>
  /\ lastPoll = NoPoll
  /\ run = << >>
  /\ monitorRet = Ret(<< >>, NoErr)
  /\ result = NoResult
  /\ reportRet = NoReport
  /\ lastFetch = NoFetch
  /\ classified = NoClassified
  /\ submitted = NoSubmitted
  /\ statusManager = NewStatusUpdateManager
  /\ exit = NoExit
  /\ failedInARow = 0
  /\ statusCheck = NoHandled
  /\ checked = NoChecked
  /\ hashed = NoHashed
  /\ reportTries = 0
  /\ retries = 0
  /\ cancels = 0
  /\ cancelErr = << >>

Next ==
  \/ Start
  \/ Tick
  \/ CtxCancel
  \/ MonitorCtxDone
  \/ MonitorTimeout
  \/ MonitorPoll
  \/ MonitorStatusTick
  \/ DownloadAttempt
  \/ DownloadExhausted
  \/ WaitEnter
  \/ WaitTimeout
  \/ WaitPoll
  \/ WaitCancel
  \/ JUnitTimeout
  \/ JUnitAttempt
  \/ Classify
  \/ Submit
  \/ RunAndWaitExit
  \/ Check
  \/ Handle
  \/ ManagerUpdate
  \/ Hash

Spec == Init /\ [][Next]_vars

\* The poll ticker at its fastest: a poll tick is ready whenever the timeout is
FastestPoll == 1

\* ExecuteTestRun as a process that keeps running: the
\* select of monitorTestExecution, which picks among its ready cases at
\* random, does not pass over a case that stays ready for ever
MonitorInit == Init /\ prog = "orchestrator" /\ pollInterval = FastestPoll
MonitorNext ==
  \/ Start
  \/ Tick
  \/ CtxCancel
  \/ MonitorCtxDone
  \/ MonitorTimeout
  \/ MonitorPoll
  \/ MonitorStatusTick
  \/ DownloadAttempt
  \/ DownloadExhausted
MonitorLive ==
  /\ MonitorInit /\ [][MonitorNext]_vars
  /\ WF_vars(MonitorTimeout) /\ WF_vars(MonitorCtxDone)

\* run-and-wait from WaitForTestCompletion on, as a process that keeps
\* running: a sleep ends, a request is answered, a return is made
WaitInit == Init /\ prog = "wait"
WaitNext == WaitEnter \/ WaitTimeout \/ WaitPoll \/ WaitCancel \/ RunAndWaitExit
WaitLive == WaitInit /\ [][WaitNext]_vars /\ WF_vars(WaitNext)

\* ------------------------------------------------------------------------
\* Properties
\* ------------------------------------------------------------------------
\* A step of the poll case of monitorTestExecution, told by what it leaves:
\* it alone takes the tick out of pollTicker.C and goes on, and it alone
\* returns something else than the errors of the two other returning cases
MonitorPolled ==
  /\ prog = "orchestrator" /\ pc = "monitor" /\ pollTick
  /\ IF pc' = "monitor" THEN ~pollTick'
     ELSE monitorRet'.err.text \notin { << "context canceled" >>,
                                        << "timeout waiting for test completion after" >> }

\* A step of the loop of WaitForTestCompletion that made a status request
WaitPolled == prog = "wait" /\ pc = "loop" /\ retries' = retries + 1

\* The steps so told are the steps of MonitorPoll and of WaitPoll
PolledIsPoll ==
  [][(MonitorPolled <=> MonitorPoll) /\ (WaitPolled <=> WaitPoll)]_vars

\* C1: whenever a successful status poll returns a snapshot whose crash count
\* N is greater than 0, the poller has ended on that poll, and what it returned
\* is the error "test crashed: N test(s) crashed", whatever the status string
\* and the other counts are.
C1_CrashEndsPolling ==
  (lastPoll.err = NoErr /\ Len(lastPoll.status) = 1
   /\ lastPoll.status[1].Results.Crash > 0)
  => /\ pc \notin {"monitor", "loop"}
     /\ monitorRet.err = ErrN(<< "test crashed:", "%d test(s) crashed" >>,
                              lastPoll.status[1].Results.Crash)

\* A poll answered 200 with status "completed" and one crashed test has ended
\* the orchestrator's poller with the crash error
C1_Witness ==
  /\ prog = "orchestrator" /\ pc = "done"
  /\ lastPoll.code = 200 /\ lastPoll.err = NoErr /\ Len(lastPoll.status) = 1
  /\ lastPoll.status[1].Status = "completed"
  /\ lastPoll.status[1].Results.Crash = 1
  /\ monitorRet.err.text = << "test crashed:", "%d test(s) crashed" >>
  /\ monitorRet.err.num = 1

\* C2: in the orchestrator's poll loop, after a successful poll whose snapshot
\* has total > 0 and queued = in-progress = not-started = 0, the loop has
\* left Polling, regardless of the snapshot's status string.
C2_FinishedCountsEndPolling ==
  (prog = "orchestrator" /\ lastPoll.err = NoErr /\ Len(lastPoll.status) = 1
   /\ lastPoll.status[1].Results.Total > 0
   /\ lastPoll.status[1].Results.InQueue = 0
   /\ lastPoll.status[1].Results.InProgress = 0
   /\ lastPoll.status[1].Results.NotStarted = 0)
  => pc # "monitor"

\* C3: once the orchestrator's poller has returned (any terminal exit), a
\* cancel-run request has been issued.
C3_OrchestratorCancelsOnExit ==
  (prog = "orchestrator" /\ pc \in {"report", "done"} /\ Len(run) = 1)
  => cancels >= 1

\* C4: WaitForTestCompletion has issued no cancel-run request until it
\* returns, exactly one when it has returned, by whatever path, and it makes
\* no status request once a cancel-run request was issued.
C4_OneCancelAfterLastPoll ==
  [][prog = "wait"
     => /\ cancels' = (IF pc' = "returned" THEN 1 ELSE 0)
        /\ (cancels >= 1 => (retries' = retries /\ lastPoll' = lastPoll))]_vars

\* The first poll found one crashed test, and WaitForTestCompletion returned
\* the crash error after one cancel-run request
C4_Witness ==
  /\ prog = "wait" /\ pc = "returned"
  /\ retries = 1
  /\ monitorRet.err = ErrN(<< "test crashed:", "%d test(s) crashed" >>, 1)
  /\ cancels = 1

\* C5: what WaitForTestCompletion returns is what its loop returned: the
\* deferred cancel-run request, failing or not, leaves it as it is.
C5_CancelResultNotReturned ==
  [][(prog = "wait" /\ pc = "deferred") => monitorRet' = monitorRet]_vars

\* The cancel-run request failed, and WaitForTestCompletion returned nil
C5_Witness ==
  /\ prog = "wait" /\ pc = "returned"
  /\ Len(cancelErr) = 1 /\ cancelErr[1] # NoErr
  /\ monitorRet.err = NoErr

\* C6: when the orchestrator's poller returned on a snapshot with failed or
\* crashed tests, ExecuteTestRun returns a result carrying that snapshot with
\* Success false, and a nil error.
C6_FailedOrCrashedIsAResult ==
  (prog = "orchestrator" /\ pc = "done"
   /\ lastPoll.err = NoErr /\ Len(lastPoll.status) = 1
   /\ monitorRet.status = lastPoll.status
   /\ (lastPoll.status[1].Results.Failed > 0 \/ lastPoll.status[1].Results.Crash > 0))
  => /\ Len(result.res) = 1
     /\ result.err = NoErr
     /\ result.res[1].Status = lastPoll.status
     /\ ~result.res[1].Success

\* C7: for every result ExecuteTestRun returns, Success is true exactly when
\* the poller ended on a snapshot that reads completed (as the poller reads
\* it, in any letter case) with zero failed and zero crashed tests.
C7_SuccessIffCompletedClean ==
  (prog = "orchestrator" /\ pc = "done" /\ Len(result.res) = 1)
  => (result.res[1].Success
      <=> /\ Len(result.res[1].Status) = 1
          /\ ToLower(result.res[1].Status[1].Status) = "completed"
          /\ result.res[1].Status[1].Results.Failed = 0
          /\ result.res[1].Status[1].Results.Crash = 0)

\* C8: in the orchestrator's poll loop a failing status poll adds one to
\* consecutiveErrors; below 5 the loop goes on, and at 5 the poller returns
\* the error "too many consecutive errors: ...", which ExecuteTestRun returns
\* as an error.
C8_FailingPollCounts ==
  [][(MonitorPolled /\ lastPoll'.err # NoErr)
     => /\ consecutiveErrors' = consecutiveErrors + 1
        /\ IF consecutiveErrors + 1 < 5
           THEN pc' = "monitor" /\ monitorRet' = monitorRet
           ELSE /\ pc' = "done"
                /\ monitorRet'.status = << >>
                /\ Head(monitorRet'.err.text) = "too many consecutive errors:"
                /\ Len(result'.res) = 0 /\ result'.err # NoErr]_vars

\* The fifth failing poll in a row has ended the poller
C8_Witness ==
  /\ prog = "orchestrator" /\ pc = "done"
  /\ consecutiveErrors = 5
  /\ lastPoll.err # NoErr
  /\ monitorRet.err.text # << >>
  /\ Head(monitorRet.err.text) = "too many consecutive errors:"

\* C9: after a status poll answered with code 500, the poller has left
\* Polling.
C9_FatalCodeEndsPolling ==
  lastPoll.code = StatusInternalServerError => pc \notin {"monitor", "loop"}

C11_InProgressCodeGivesInProgress ==
  lastPoll.code \in {StatusTestInProgress227, StatusTestInProgress228}
  => /\ lastPoll.err = NoErr
     /\ Len(lastPoll.status) = 1
     /\ lastPoll.status[1].Status \in {StatusInProgress, "new", "in_queue", "not_started"}

\* C12: whenever the snapshot a status poll retrieved carries an error whose
\* message begins with "CRASH:", the poller has ended on that poll, and what
\* it returned is a "test crashed: ..." error.
C12_CrashMarkerEndsPolling ==
  (Len(lastPoll.status) = 1
   /\ \E i \in 1..Len(lastPoll.status[1].Errors) :
        /\ lastPoll.status[1].Errors[i].Error # << >>
        /\ Head(lastPoll.status[1].Errors[i].Error) = "CRASH:")
  => /\ pc \notin {"monitor", "loop"}
     /\ monitorRet.err.text # << >>
     /\ Head(monitorRet.err.text) = "test crashed:"

\* C13: with a timeout of one minute and a poll interval of 10 s, a poller
\* that is not cancelled and leaves its loop on a step that is no status
\* request has made exactly 6 status requests and returns the timeout error,
\* and it makes no 7th request.
C13_SixPollsThenTimedOut ==
  [][ /\ (prog = "orchestrator" /\ timeout = 6 /\ pollInterval = 1 /\ ~ctxDone
          /\ pc = "monitor" /\ pc' # "monitor" /\ ~MonitorPolled)
         => /\ polls = 6
            /\ monitorRet'.err = ErrN(<< "timeout waiting for test completion after" >>, 6)
      /\ (prog = "orchestrator" /\ timeout = 6 /\ pollInterval = 1 /\ MonitorPolled)
         => polls < 6
      /\ (prog = "wait" /\ timeout = 1 /\ pollInterval = 10
          /\ pc = "loop" /\ pc' # "loop" /\ ~WaitPolled)
         => /\ retries = 6
            /\ monitorRet'.err = ErrN(<< "timed out waiting for test completion after",
                                        "%d minutes" >>, 1)
      /\ (prog = "wait" /\ timeout = 1 /\ pollInterval = 10 /\ WaitPolled)
         => retries < 6 ]_vars

\* The report retriever has returned; the budget of attempts it had, and the
\* "not ready" answers it got before its last request
ReportReturned ==
  \/ prog = "orchestrator" /\ pc = "done" /\ fetchReport
  \/ prog = "junit" /\ pc = "reported"
ReportBudget == IF prog = "junit" THEN maxRetries ELSE downloadMaxRetries
Exhausted ==
  IF prog = "junit"
  THEN ErrN(<< "timed out waiting for JUnit report after", "%d attempts" >>, maxRetries)
  ELSE ErrN(<< "report not ready after", "%d attempts" >>, downloadMaxRetries)
FetchSucceeded == lastFetch.fail = << >> /\ lastFetch.code = StatusOK

NotReadyAnswer ==
  /\ lastFetch.fail = << >> /\ lastFetch.code = StatusNotFound
  /\ lastFetch.body.json /\ Len(lastFetch.body.message) > 0
  /\ Contains(lastFetch.body.message[1], "Report still being generated")

\* C15: once a report request has failed with anything but the 404 of a report
\* still being generated, the retriever has returned, with the error of that
\* request: it makes no further request, and returns neither success nor the
\* error of a used-up budget.
C15_GenuineFailureEndsRetrieval ==
  (lastFetch # NoFetch /\ ~FetchSucceeded /\ ~NotReadyAnswer)
  => /\ ReportReturned
     /\ reportRet.err \notin {NoErr, Exhausted}

\* C16: when ExecuteTestRun has returned after a failed submission, or after
\* its poller gave up on too many consecutive errors or on the timeout, it
\* returned a nil result and a non-nil error that wraps the failure; and
\* whenever it returned a result, the submission had succeeded and the poller
\* had returned no error.
C16_FailuresAreErrors ==
  (prog = "orchestrator" /\ pc = "done")
  => /\ Len(run) = 0
        => /\ result.res = << >>
           /\ result.err # NoErr
           /\ Head(result.err.text) = "failed to start test run:"
     /\ (/\ Len(run) = 1
         /\ monitorRet.err # NoErr
         /\ Head(monitorRet.err.text) \in {"too many consecutive errors:",
                                           "timeout waiting for test completion after"})
        => /\ result.res = << >>
           /\ result.err = ErrN(<< "error during test execution:" >> \o monitorRet.err.text,
                                monitorRet.err.num)
     /\ Len(result.res) = 1
        => /\ result.err = NoErr
           /\ Len(run) = 1
           /\ monitorRet.err = NoErr

\* C16 witness: the poller gave up on its fifth consecutive failing poll and
\* ExecuteTestRun returned that as an error, with no result
C16_Witness ==
  /\ prog = "orchestrator" /\ pc = "done"
  /\ consecutiveErrors = maxConsecutiveErrors
  /\ monitorRet.err # NoErr
  /\ Head(monitorRet.err.text) = "too many consecutive errors:"
  /\ result.res = << >>
  /\ result.err # NoErr

\* A step of downloadReport: a report request, or its return on a used-up budget
DownloadStep ==
  prog = "orchestrator" /\ pc = "report" /\ (pc' # pc \/ reportTries' # reportTries)

\* C17: in ExecuteTestRun a step makes at most one of the three requests
\* (start, status, report); a status request is made only after StartTestRun
\* returned a run and before any report request; a report request is made only
\* after the poller returned a finished snapshot and no error, and no status
\* request follows it; after a failed submission neither is ever made.
C17_StrictlySequential ==
  [][prog = "orchestrator"
     => /\ run' # run
           => /\ pc = "start" /\ lastPoll = NoPoll /\ lastFetch = NoFetch
              /\ lastPoll' = lastPoll /\ lastFetch' = lastFetch
        /\ (MonitorPolled \/ lastPoll' # lastPoll)
           => /\ pc = "monitor" /\ Len(run) = 1 /\ lastFetch = NoFetch
              /\ run' = run /\ lastFetch' = lastFetch
        /\ (DownloadStep \/ lastFetch' # lastFetch)
           => /\ pc = "report" /\ Len(run) = 1
              /\ monitorRet.err = NoErr /\ Len(monitorRet.status) = 1
              /\ IsComplete(monitorRet.status[1])
              /\ run' = run /\ lastPoll' = lastPoll /\ polls' = polls
        /\ (pc # "start" /\ Len(run) = 0)
           => /\ pc = "done"
              /\ lastPoll' = NoPoll /\ lastFetch' = NoFetch]_vars

\* C17 witness: ExecuteTestRun started a run, polled it to its end and has
\* made report requests
C17_Witness ==
  /\ prog = "orchestrator" /\ pc = "done"
  /\ Len(run) = 1
  /\ lastPoll # NoPoll
  /\ lastFetch # NoFetch
  /\ reportTries >= 1

\* The classified answer's body carries an errors array with a bare string
\* that begins with "CRASH:"
CrashStringInBody ==
  /\ classified.body.json /\ Len(classified.body.errors) > 0
  /\ \E i \in 1..Len(classified.body.errors[1]) :
       LET e == classified.body.errors[1][i]
       IN ~e.isMap /\ e.error # << >> /\ Head(e.error) = "CRASH:"

\* What the classifier returned is a not-found error: "test not found or not
\* ready", or the API error of status 404
NotFoundError ==
  /\ classified.got.err # NoErr
  /\ \/ classified.got.err.text = << "test not found or not ready" >>
     \/ /\ Len(classified.got.err.text) >= 2
        /\ classified.got.err.text[1] = "API error ("
        /\ classified.got.err.text[2] = StatusTok(StatusNotFound)

\* C18: a status classifier applied to a 404 answer returns a "test crashed:
\* ..." error when the body's errors array holds a string that begins with
\* "CRASH:", and a not-found error when it holds none.
C18_NotFoundOrCrash ==
  (prog = "classify" /\ classified.code = StatusNotFound)
  => IF CrashStringInBody
     THEN /\ classified.got.err # NoErr
          /\ Head(classified.got.err.text) = "test crashed:"
     ELSE NotFoundError

\* C19: whenever the latest status poll was answered with code 230, the poller
\* has ended on that poll: it returned no error (a failed run; the orchestrator
\* returns the snapshot), or the crash error when the snapshot counts crashed
\* tests, and the poll was not counted as a consecutive error.
C19_FailedCodeEndsPolling ==
  lastPoll.code = StatusTestFailed
  => /\ pc \notin {"monitor", "loop"}
     /\ consecutiveErrors = 0
     /\ \/ /\ monitorRet.err = NoErr
           /\ prog = "orchestrator" => monitorRet.status = lastPoll.status
        \/ /\ monitorRet.err # NoErr
           /\ Head(monitorRet.err.text) = "test crashed:"
           /\ Len(lastPoll.status) = 1
           /\ lastPoll.status[1].Results.Crash > 0

\* The text best occurs in text, its pieces in a row
Carries(text, best) ==
  \E k \in 0..(Len(text) - Len(best)) : SubSeq(text, k + 1, k + Len(best)) = best

\* C20: a status classifier applied to an answer with a 4xx/5xx code other
\* than 404 returns an error and no snapshot, and the error's text carries the
\* body's message member, else the strings of its errors array joined by "; ",
\* else the raw body.
C20_FatalErrorCarriesMessage ==
  (prog = "classify" /\ classified.code >= 400 /\ classified.code <= 599
   /\ classified.code # StatusNotFound)
  => /\ classified.got.err # NoErr
     /\ client # "interpret" => classified.got.status = << >>
     /\ LET body == classified.body
            joined == IF body.json /\ Len(body.errors) > 0
                      THEN extractErrorDetails(body.errors[1]) ELSE << >>
            best == IF body.json /\ Len(body.message) > 0 THEN body.message[1]
                    ELSE IF joined # << >> THEN joined
                    ELSE body.raw
        IN Carries(classified.got.err.text, best)

\* C21: in every snapshot a status classifier returns for a body with an
\* overallResults object, each counter is the value the object holds under one
\* of the counter's spellings (0 for a spelling that is absent), never a sum
\* of the values of several spellings.
C21_SpellingsNotAdded ==
  (prog = "classify" /\ client # "interpret"
   /\ Len(classified.got.status) = 1
   /\ classified.body.json /\ Len(classified.body.overallResults) = 1)
  => LET m == classified.body.overallResults[1]
         res == classified.got.status[1].Results
     IN /\ res.Total \in {getInt(m, "Total"), getInt(m, "total")}
        /\ res.InQueue \in {getInt(m, "In queue"), getInt(m, "inQueue"), getInt(m, "queued")}
        /\ res.InProgress \in {getInt(m, "In progress"), getInt(m, "inProgress"),
                               getInt(m, "running")}
        /\ res.Passed \in {getInt(m, "Passed"), getInt(m, "passed")}
        /\ res.Failed \in {getInt(m, "Failed"), getInt(m, "failed")}
        /\ res.NotStarted \in {getInt(m, "Not started"), getInt(m, "notStarted")}
        /\ res.Canceled \in {getInt(m, "Canceled"), getInt(m, "canceled"),
                             getInt(m, "cancelled")}
        /\ res.Crash \in {getInt(m, "Crash"), getInt(m, "crash")}

\* C22: in every snapshot a status classifier returns for a body with an
\* errors array, no entry is dropped, and every bare string of the array is
\* there as one error with that text and 1 occurrence, of category "CRASH"
\* when the text contains "CRASH:" and of another category when it does not.
C22_BareStringsKept ==
  (prog = "classify" /\ client # "interpret"
   /\ Len(classified.got.status) = 1
   /\ classified.body.json /\ Len(classified.body.errors) = 1)
  => LET list == classified.body.errors[1]
         errors == classified.got.status[1].Errors
     IN /\ Len(errors) = Len(list)
        /\ \A i \in 1..Len(list) :
             ~list[i].isMap
             => \E j \in 1..Len(errors) :
                  /\ errors[j].Error = list[i].error
                  /\ errors[j].Occurrences = 1
                  /\ (errors[j].Category = ErrorCategoryCrash)
                     <=> Contains(list[i].error, "CRASH:")

\* A StartTestRun has happened; its options, request and return
Submitted == prog = "submit" /\ Len(submitted.opts) = 1

\* C23: run options with both test-case identifiers and labels, which
\* ValidateTestRunOptions rejects, are rejected by StartTestRun: it sends no
\* request for them and returns an error and no handle.
C23_BothSelectionsRejected ==
  (/\ Submitted
   /\ Len(submitted.opts[1].TestCaseUUIDs) > 0
   /\ Len(submitted.opts[1].Labels) > 0
   /\ ValidateTestRunOptions(submitted.opts[1]) # NoErr)
  => /\ submitted.request = << >>
     /\ submitted.got.res = << >>
     /\ submitted.got.err # NoErr

\* The request carries a branch whose name is the labels joined by "-", then
\* "-" and a timestamp, and a handle that is returned carries that name
SynthesizedBranch ==
  LET opts == submitted.opts[1]
      request == submitted.request[1]
  IN /\ Len(request.branch) = 1
     /\ request.branch[1].name \in
          {JoinLabels(opts.Labels) \o << "-" >> \o ts : ts \in {UnixNow, FormattedNow}}
     /\ request.branch[1].name # << >>
     /\ Len(submitted.got.res) = 1
        => submitted.got.res[1].BranchName = request.branch[1].name

\* Label mode with labels and no branch name
LabelsNoBranch ==
  /\ Submitted
  /\ Len(submitted.opts[1].TestCaseUUIDs) = 0
  /\ Len(submitted.opts[1].Labels) > 0
  /\ submitted.opts[1].BranchName = << >>

C25_TestCaseModeDropsBranch ==
  (Submitted /\ Len(submitted.opts[1].TestCaseUUIDs) > 0)
  => LET opts == submitted.opts[1]
         request == submitted.request[1]
     IN /\ request.testCaseUuids = << opts.TestCaseUUIDs >>
        /\ request.branch = << >>
        /\ request.labels = << >>
        /\ request.excludedLabels = << >>
        /\ opts.URL # << >> => request.url = << opts.URL >>

C25_Witness ==
  /\ Submitted
  /\ Len(submitted.opts[1].TestCaseUUIDs) > 0
  /\ Len(submitted.opts[1].Labels) > 0
  /\ submitted.opts[1].BranchName # << >>
  /\ submitted.opts[1].CommitHash # << >>
  /\ submitted.opts[1].URL # << >>
  /\ submitted.request[1].url = << submitted.opts[1].URL >>
  /\ submitted.request[1].branch = << >>

\* C26: StartTestRun returns a handle exactly when the answer has code 200 and
\* a JSON body with a task id; for every other answer it returns an error and
\* no handle.
C26_HandleOnlyOn200WithTaskId ==
  Submitted
  => LET ok == /\ submitted.code = StatusOK
               /\ submitted.body.json
               /\ Len(submitted.body.taskId) = 1
     IN /\ ok => (Len(submitted.got.res) = 1 /\ submitted.got.err = NoErr)
        /\ ~ok => (submitted.got.res = << >> /\ submitted.got.err # NoErr)

\* The latest status request of WaitForTestCompletion returned a snapshot
WaitGotStatus == lastPoll.err = NoErr /\ Len(lastPoll.status) = 1

\* C27: on every poll of WaitForTestCompletion the status display is printed
\* exactly when the poll returned a snapshot and its status text differs from
\* the last displayed one, or its counts differ from the last displayed ones,
\* or the update interval has elapsed since the last display.
C27_DisplayOnChangeOrHeartbeat ==
  [][WaitPolled
     => (statusManager'.printed
         <=> /\ WaitGotStatus'
             /\ \/ lastPoll'.status[1].Status # statusManager.lastStatus
                \/ lastPoll'.status[1].Results # statusManager.lastResults
                \/ statusManager'.timeSinceLast >= pollInterval)]_vars

\* WaitForTestCompletion ended on a snapshot with failed tests and no crash
FinishedWithFailures ==
  /\ prog = "wait"
  /\ WaitGotStatus
  /\ lastPoll.status[1].Results.Failed > 0
  /\ lastPoll.status[1].Results.Crash = 0

\* C28: when a run finishes with failed tests and run-and-wait meets no error
\* retrieving the report, the command's exit code is 1 when ErrorOnTestFailure
\* (TR_CI_ERROR_ON_TEST_FAILURE = "true") is set and 0 when it is not.
C28_ExitCodeFollowsSetting ==
  (exit.done /\ FinishedWithFailures /\ ~exit.reportFailed)
  => exit.code = (IF exit.errorOnTestFailure THEN 1 ELSE 0)

C30_FortyCharacters ==
  (prog = "hash" /\ hashed # NoHashed)
  => LET timestamp == hashed[1].timestamp
         got == hashed[1].got
         base == << "66616b65" >> \o RemoveHyphens(timestamp)
     IN /\ ~got.panic
        /\ StrLen(got.hash) = 40
        /\ Head(got.hash) = "66616b65"
        /\ got.hash = base \o Zeros(40 - StrLen(base))

\* C31: for an error that reports status 404 and a counter that stays below
\* the maximum, HandleStatusCheckError tells the caller to continue, returns
\* no error and leaves the counter one higher.
C31_NotFoundContinues ==
  (/\ prog = "handle" /\ statusCheck # NoHandled
   /\ Contains(statusCheck[1].err.text, StatusTok(StatusNotFound))
   /\ statusCheck[1].consecutiveErrors + 1 < maxConsecutiveErrors)
  => /\ statusCheck[1].got.shouldContinue
     /\ statusCheck[1].got.err = NoErr
     /\ statusCheck[1].got.consecutiveErrors = statusCheck[1].consecutiveErrors + 1

\* C32: a call of Update prints only when at least the update interval has
\* passed since the last display, and a call made sooner prints nothing and
\* leaves lastUpdate, lastStatus and lastResults as they were.
C32_DisplaysAnIntervalApart ==
  [][prog = "manager"
     => /\ statusManager'.printed => statusManager'.timeSinceLast >= pollInterval
        /\ statusManager'.timeSinceLast < pollInterval
           => /\ ~statusManager'.printed
              /\ statusManager'.sinceUpdate = statusManager'.timeSinceLast
              /\ statusManager'.sinceUpdate >= statusManager.sinceUpdate
              /\ statusManager'.lastStatus = statusManager.lastStatus
              /\ statusManager'.lastResults = statusManager.lastResults]_vars

\* A display of "completed" was made, and a call with another snapshot less
\* than the interval later printed nothing and left "completed" in place
C32_Witness ==
  /\ prog = "manager"
  /\ statusManager.lastStatus = "completed"
  /\ ~statusManager.printed
  /\ statusManager.sinceUpdate > 0
  /\ statusManager.sinceUpdate < pollInterval

\* The poll that just ended made the poller return "too many consecutive
\* errors"
TooManyErrors ==
  /\ prog = "orchestrator" /\ pc = "done"
  /\ monitorRet.err.text # << >>
  /\ Head(monitorRet.err.text) = "too many consecutive errors:"

\* C33: in the orchestrator's poll loop every successful poll leaves the
\* counter at zero, the counter equals the number of failed polls since the
\* last successful one and lies in 0..4 while the loop goes on, and the poller
\* returns "too many consecutive errors" only when its 5 latest polls failed.
C33_OnlyConsecutiveFailuresCount ==
  [][MonitorPolled
     => /\ lastPoll'.err = NoErr => consecutiveErrors' = 0
        /\ pc' = "monitor"
           => (consecutiveErrors' \in 0..4 /\ consecutiveErrors' = failedInARow')
        /\ TooManyErrors' => (failedInARow' >= 5 /\ lastPoll'.err # NoErr)]_vars

\* Five polls failed after a successful one, and the poller gave up
C33_Witness ==
  /\ TooManyErrors
  /\ failedInARow = 5
  /\ Len(lastStatus) = 1

\* C34: WaitForTestCompletion returns without error only on a poll whose
\* snapshot shows the run finished (total > 0, nothing queued, in progress or
\* not started) or reported as failed (status "Failed" or code 230).
C34_NilOnlyWhenFinished ==
  (prog = "wait" /\ pc \in {"deferred", "returned"} /\ monitorRet.err = NoErr)
  => /\ WaitGotStatus
     /\ \/ /\ lastPoll.status[1].Results.Total > 0
           /\ lastPoll.status[1].Results.InQueue = 0
           /\ lastPoll.status[1].Results.InProgress = 0
           /\ lastPoll.status[1].Results.NotStarted = 0
        \/ lastPoll.status[1].Status = "Failed"
        \/ lastPoll.code = StatusTestFailed

\* C35: when the orchestrator's poller has ended without error on a snapshot
\* whose status reads completed in any letter case, with zero failed and zero
\* crashed tests, ExecuteTestRun returns a result with Success = true.
C35_CompletedAnyCaseSucceeds ==
  (/\ prog = "orchestrator" /\ pc = "done"
   /\ Len(run) = 1
   /\ monitorRet.err = NoErr
   /\ Len(monitorRet.status) = 1
   /\ ToLower(monitorRet.status[1].Status) = "completed"
   /\ monitorRet.status[1].Results.Failed = 0
   /\ monitorRet.status[1].Results.Crash = 0)
  => /\ Len(result.res) = 1
     /\ result.res[1].Success

\* downloadReport was called and returned an error
ReportFailed ==
  /\ prog = "orchestrator" /\ pc = "done"
  /\ fetchReport
  /\ Len(run) = 1 /\ monitorRet.err = NoErr
  /\ reportRet.err # NoErr

\* C36: when the report was asked for and downloadReport failed, ExecuteTestRun
\* returns no error and the result it returns without a report request: the
\* run's task id and branch, the poller's snapshot, the same Success, and an
\* empty report path.
C36_ReportFailureKeepsResult ==
  ReportFailed
  => /\ result.err = NoErr
     /\ result.res = << TestRunResult(run[1], monitorRet.status, "") >>
     /\ result.res[1].TaskID = run[1].TaskID
     /\ result.res[1].BranchName = run[1].BranchName
     /\ result.res[1].Status = monitorRet.status
     /\ result.res[1].Success = isTestRunSuccessful(monitorRet.status)
     /\ result.res[1].ReportPath = ""

\* The budget of attempts was used up after a run that succeeded
C36_Witness ==
  /\ ReportFailed
  /\ reportRet.err = Exhausted
  /\ Len(result.res) = 1
  /\ result.res[1].Success

\* C37: with a poll interval of at least 1 second WaitForTestCompletion makes
\* at most (timeoutMinutes * 60) div pollInterval status requests, failed ones
\* included, and returns; with a poll interval longer than the timeout it
\* makes none and returns the timeout error.
C37_BoundedRequestsThenReturns ==
  /\ [](pollInterval >= 1
        => /\ retries <= (timeout * 60) \div pollInterval
           /\ (pollInterval > timeout * 60 /\ pc \in {"deferred", "returned"})
              => /\ retries = 0
                 /\ lastPoll = NoPoll
                 /\ Head(monitorRet.err.text) = "timed out waiting for test completion after")
  /\ (pollInterval >= 1) ~> (pc = "returned" /\ cancels = 1)

\* Every one of the 6 requests of a minute at 10 s was made and failed or
\* found the run unfinished, and the wait returned the timeout error
C37_Witness ==
  /\ prog = "wait" /\ pc = "returned"
  /\ pollInterval = 10 /\ timeout = 1
  /\ retries = 6
  /\ lastPoll.err # NoErr
  /\ Head(monitorRet.err.text) = "timed out waiting for test completion after"

\* C38: whatever the status polls are answered, once the timeout has elapsed
\* or the context is cancelled the orchestrator's poll loop returns, a poll
\* tick that is ready at the same time notwithstanding.
C38_TimeoutNotPostponed ==
  (pc = "monitor" /\ (timeoutFired \/ ctxDone)) ~> (pc # "monitor")

\* The poll loop has returned on its timeout after polls that were answered,
\* the last of them with an error
C38_Witness ==
  /\ prog = "orchestrator" /\ pc = "done"
  /\ monitorRet.err.text # << >>
  /\ Head(monitorRet.err.text) = "timeout waiting for test completion after"
  /\ Len(lastStatus) = 1
  /\ lastPoll.err # NoErr
====
